---- MODULE Spec2Model ----
(***************************************************************************)
(* A model of the retrieval-augmented-generation core of sequence.se:      *)
(*   - scripts/load-rag-data.ts (src/unnamed/part_000): text chunking and   *)
(*     the ingestion run processFiles;                                      *)
(*   - src/app/utils/context.ts and embeddings.ts (src/unnamed/part_001):   *)
(*     getContext and getEmbeddings;                                        *)
(*   - src/app/utils/pinecone.ts (src/unnamed/part_002):                    *)
(*     getMatchesFromEmbeddings.                                            *)
(* A JavaScript string is a sequence of one-character strings.              *)
(***************************************************************************)
EXTENDS Integers, Sequences, FiniteSets, TLC

VARIABLES
  \* ---- the chunking of one document (processFiles, lines 262-323) ----
  cpc,             \* "read", "preprocessed" or "chunked"
  text,            \* the document's text: as read, then (line 272) preprocessed
  chunksPrimary,   \* line 284
  packedPrimary,   \* whether that splitText call returned from its packing branch
  prePrimary,      \* the chunks of that call before its overlap pass (line 146)
  chunksSliding,   \* lines 287-296
  chunksSentence,  \* lines 300-310
  uniqueChunks,    \* lines 314-323
  \* ---- one ingestion run (processFiles, lines 210-461) ----
  ipc,             \* where the run is: "start", "documents", "awaitEmbedding",
                   \* "awaitUpsert", "awaitStats", "done" or "failed"
  env,             \* process.env: which of the three settings are set
  filePaths,       \* the argument of processFiles
  fileIdx,         \* the number of documents the loop of line 254 has visited
  allChunks,       \* line 241
  embI,            \* the loop variable i of line 366
  embeddings,      \* line 364; a vector is modelled by its length
  recordsToUpsert, \* line 399
  upI,             \* the loop variable i of line 410
  successfulUploads,
  failedUploads,
  requests,        \* every network request issued so far, in order
  uploadLog,       \* the outcome of every upsert request, in order
  lastVectors,     \* the vectors of the last embedding response received
  ierror,          \* what processFiles threw, kind "none" if nothing
  \* ---- one call of getContext (part_001, lines 12-124) ----
  gpc,             \* where the call is: "idle", "create" (the embedding request is
                   \* out), "wait" (the delay of line 169), "query" (the index
                   \* query is out), "done" or "failed"
  genv,            \* process.env: the settings as strings
  pineconeClient,  \* part_002 line 13: TRUE once the client has been made
  invocation,      \* the number of getContext calls made so far
  queryPending,    \* the calls whose index query has not settled yet
  timerPending,    \* the calls whose timer of part_002 line 87 has not fired yet
  message,         \* the arguments of the getContext call now running
  namespace,
  maxTokens,
  minScore,
  getOnlyText,
  retryCount,      \* the parameter of the getEmbeddings call now running
  embedCalls,      \* the input of every embeddings.create request, in order
  embedOutcomes,   \* how each of them settled, in order
  waits,           \* the delays getEmbeddings has waited through, in ms
  embedding,       \* what getEmbeddings returned, modelled by its length
  queries,         \* every index query issued, in order
  matches,         \* line 28
  qualifyingDocs,  \* line 37
  docs,            \* lines 66-101
  result,          \* line 111
  gerror,          \* the kind of what getContext threw, "none" if nothing
  gmessage,        \* the message of what getContext threw
  raceLog,         \* what has settled in the Promise.race of the call now
                   \* running (part_002 lines 79-89), in order
  \* ---- one request to POST (src/app/api/chat/route.ts, lines 10-317) ----
  hpc,             \* where the handler is: "start", "context" (a getContext
                   \* call is out), "backoff" (the delay of line 88),
                   \* "completion" (a chat-completion request is out) or
                   \* "responded"
  request,         \* the request body
  hRetryCount,     \* the parameter of the getContextWithRetry call now running
  hwaits,          \* the delays getContextWithRetry has waited through, in ms
  hfailures,       \* the message of every failed getContext call, in order
  wrapperOutcome,  \* how getContextWithRetry ended: "none" while it runs
  wrapperError,    \* the message of what getContextWithRetry threw
  context,         \* line 65
  response,        \* the response of the handler, status 0 while none
  completionCalls, \* the chat-completion requests issued (line 215)
  cRetryCount,     \* the parameter of the getOpenAIResponse call now running
  completionLog,   \* what each settled chat-completion request gave, in order
  cwaits,          \* the delays getOpenAIResponse has waited through, in ms
  responseMessage  \* the message of the response (line 296), kind "none"
                   \* while there is none

chunkVars == << cpc, text, chunksPrimary, packedPrimary, prePrimary,
                chunksSliding, chunksSentence, uniqueChunks >>
ingestVars == << ipc, env, filePaths, fileIdx, allChunks, embI, embeddings, recordsToUpsert,
                 upI, successfulUploads, failedUploads, requests, uploadLog, lastVectors,
                 ierror >>
callArgs == << message, namespace, maxTokens, minScore, getOnlyText >>
retrievalVars == << gpc, genv, pineconeClient, invocation, queryPending, timerPending,
                    callArgs, retryCount, embedCalls, embedOutcomes, waits, embedding,
                    queries, matches, qualifyingDocs, docs, result, gerror, gmessage,
                    raceLog >>
completionVars == << completionCalls, cRetryCount, completionLog, cwaits, responseMessage >>
handlerVars == << hpc, request, hRetryCount, hwaits, hfailures, wrapperOutcome, completionVars,
                  wrapperError, context, response >>
contextVars == << retrievalVars, handlerVars >>
vars == << chunkVars, ingestVars, contextVars >>

(***************************************************************************)
(* Program constants (src/unnamed/part_000, lines 52-60).                   *)
(***************************************************************************)
INDEX_DIM == 1536
CHUNK_SIZE == 100
CHUNK_OVERLAP == 50
SEPARATORS == << <<"\n", "\n">>, <<"\n">>, <<".", " ">>, <<"!", " ">>, <<"?", " ">>,
                 <<";", " ">>, <<",", " ">>, <<" ">>, <<>> >>
BATCH_SIZE == 100
UPLOAD_BATCH_SIZE == 100
\* the minimum viable chunk length, lines 292 and 319
MIN_CHUNK_LEN == 50
\* the length of the deduplication signature, line 318
SIGNATURE_LEN == 100

(***************************************************************************)
(* String primitives of JavaScript.                                         *)
(***************************************************************************)
Min(a, b) == IF a <= b THEN a ELSE b
Max(a, b) == IF a >= b THEN a ELSE b

\* s.substring(from, to) with 0-based bounds, clamped as JavaScript clamps them
Substring(s, from, to) ==
  LET f == Min(Max(from, 0), Len(s))
      t == Min(Max(to, 0), Len(s))
  IN  SubSeq(s, Min(f, t) + 1, Max(f, t))

\* s.substring(from)
SubstringFrom(s, from) == Substring(s, from, Len(s))

\* the characters String.prototype.trim and the regular expression \s remove
IsSpace(c) == c \in {" ", "\t", "\n", "\r", "\f"}

\* the first index from i on (Len(s) + 1 if none) and the last index up to i
\* (0 if none) of a character that is not white space
RECURSIVE SkipSpaces(_, _)
SkipSpaces(s, i) == IF i > Len(s) \/ ~IsSpace(s[i]) THEN i ELSE SkipSpaces(s, i + 1)

RECURSIVE SkipSpacesBack(_, _)
SkipSpacesBack(s, i) == IF i < 1 \/ ~IsSpace(s[i]) THEN i ELSE SkipSpacesBack(s, i - 1)

\* s.trim()
Trim(s) == SubSeq(s, SkipSpaces(s, 1), SkipSpacesBack(s, Len(s)))

LowerChar(c) ==
  CASE c = "A" -> "a" [] c = "B" -> "b" [] c = "D" -> "d" [] c = "M" -> "m"
    [] c = "T" -> "t" [] c = "X" -> "x" [] OTHER -> c

\* s.toLowerCase()
ToLowerCase(s) == [i \in 1..Len(s) |-> LowerChar(s[i])]

\* whether sep occurs in s at (1-based) position i
OccursAt(s, sep, i) ==
  /\ i + Len(sep) - 1 <= Len(s)
  /\ \A k \in 1..Len(sep) : s[i + k - 1] = sep[k]

(***************************************************************************)
(* A loop of the source is a state carried through the iterations lo..hi   *)
(* in order; LoopBody (below) is one iteration of the loop named.  The      *)
(* range is halved so that the evaluation stays shallow; the iterations     *)
(* run in the order of the source, each on the state the one before left.  *)
(***************************************************************************)
\* the element of a set of one element: a value written { e : x \in { v } }
\* is e with v computed once, however often e uses x
The(S) == CHOOSE x \in S : TRUE

RECURSIVE LoopRun(_, _, _, _, _)
RECURSIVE Loop(_, _, _, _, _)
RECURSIVE SplitCall(_, _)

\* s.split(sep) for a non-empty string sep, at the k-th position where sep
\* occurs: the pieces between the occurrences of sep, found left to right
\* without overlap
splitStep(ctx, state, k) ==
  LET i == ctx.at[k]
  IN  IF i >= state.start
      THEN [pieces |-> Append(state.pieces, SubSeq(ctx.s, state.start, i - 1)),
            start |-> i + Len(ctx.sep)]
      ELSE state

Split(s, sep) ==
  LET at == SelectSeq([i \in 1..Len(s) |-> i], LAMBDA i : OccursAt(s, sep, i))
      end == Loop("split", [s |-> s, sep |-> sep, at |-> at],
                  [pieces |-> <<>>, start |-> 1], 1, Len(at))
  IN  Append(end.pieces, SubSeq(s, end.start, Len(s)))

\* parts.join(sep)
RECURSIVE JoinRange(_, _, _, _)
JoinRange(parts, sep, lo, hi) ==
  IF lo > hi THEN <<>>
  ELSE IF lo = hi THEN parts[lo]
  ELSE LET mid == (lo + hi) \div 2
       IN  JoinRange(parts, sep, lo, mid) \o sep \o JoinRange(parts, sep, mid + 1, hi)

Join(parts, sep) == JoinRange(parts, sep, 1, Len(parts))

\* count copies of character c
Repeat(c, count) == [i \in 1..count |-> c]

(***************************************************************************)
(* preprocessText, lines 179-188.  Each replace is one pass that decides,   *)
(* character by character, what the character contributes.                  *)
(***************************************************************************)
\* text.replace(/\n{3,}/g, '\n\n'): of a run of newlines the first two stay
NewlineEmit(s, i) ==
  IF s[i] = "\n" /\ i > 2 /\ s[i - 1] = "\n" /\ s[i - 2] = "\n" THEN <<>> ELSE << s[i] >>

\* text.replace(/[ \t]+/g, ' '): a run of blanks and tabs becomes one blank
BlankEmit(s, i) ==
  IF s[i] \in {" ", "\t"}
  THEN IF i > 1 /\ s[i - 1] \in {" ", "\t"} THEN <<>> ELSE << " " >>
  ELSE << s[i] >>

\* text.replace(/[\x00-\x08\x0b-\x0c\x0e-\x1f\x7f-\x9f]/g, ''); of the
\* characters modelled only the form feed \x0c is in the class
ControlEmit(s, i) == IF s[i] = "\f" THEN <<>> ELSE << s[i] >>

RECURSIVE ReplacePass(_, _, _, _)
ReplacePass(s, pass, lo, hi) ==
  IF lo > hi THEN <<>>
  ELSE IF lo = hi
  THEN CASE pass = "newline" -> NewlineEmit(s, lo)
         [] pass = "blank"   -> BlankEmit(s, lo)
         [] OTHER            -> ControlEmit(s, lo)
  ELSE LET mid == (lo + hi) \div 2
       IN  ReplacePass(s, pass, lo, mid) \o ReplacePass(s, pass, mid + 1, hi)

Replace(s, pass) == ReplacePass(s, pass, 1, Len(s))

preprocessText(t) == Trim(Replace(Replace(Replace(t, "newline"), "blank"), "control"))

(***************************************************************************)
(* RecursiveCharacterTextSplitter.splitText, lines 103-172, with            *)
(* chunkSize = CHUNK_SIZE, chunkOverlap = CHUNK_OVERLAP and separators =    *)
(* SEPARATORS as processFiles constructs it (lines 234-238).                *)
(***************************************************************************)
\* AddOverlap with the overlap one character short
AddOverlapShort(chunks) ==
  IF Len(chunks) > 1 /\ CHUNK_OVERLAP > 0
  THEN [i \in 1..Len(chunks) |->
          IF i = 1 THEN chunks[1]
          ELSE SubstringFrom(chunks[i - 1], Max(0, Len(chunks[i - 1]) - CHUNK_OVERLAP + 1))
                 \o chunks[i]]
  ELSE chunks

\* lines 146-162: the overlap pass over the packed chunks of one call
AddOverlap(chunks) ==
  IF Len(chunks) > 1 /\ CHUNK_OVERLAP > 0
  THEN [i \in 1..Len(chunks) |->
          IF i = 1 THEN chunks[1]
          ELSE SubstringFrom(chunks[i - 1], Max(0, Len(chunks[i - 1]) - CHUNK_OVERLAP))
                 \o chunks[i]]
  ELSE chunks

\* fallbackStep with a counter that does not advance
fallbackStepStuck(t, state, k) ==
  IF state.i < Len(t)
  THEN [chunks |-> Append(state.chunks, Substring(t, state.i, state.i + CHUNK_SIZE)),
        i |-> state.i]
  ELSE state

\* lines 168-170: one iteration of the fallback loop; i is the loop's counter,
\* and an iteration entered with i at or past the length is the loop's exit
fallbackStep(t, state, k) ==
  IF state.i < Len(t)
  THEN [chunks |-> Append(state.chunks, Substring(t, state.i, state.i + CHUNK_SIZE)),
        i |-> state.i + (CHUNK_SIZE - CHUNK_OVERLAP)]
  ELSE state

\* lines 167-170: the loop from i = 0, given as many iterations as the text
\* has characters
fallbackLoop(t) == Loop("fallback", t, [chunks |-> <<>>, i |-> 0], 1, Len(t))

\* lines 166-171: the character-window fallback, a window every
\* chunkSize - chunkOverlap characters from 0 while the start is below the length
Fallback(t) == fallbackLoop(t).chunks

\* lines 116-141: one iteration of the packing loop, for split i; chunks and
\* currentChunk are the loop's variables, and calls lists the recursive calls
\* of line 133 made so far (by this call and by the calls it made), each with
\* the text of the call that made it
packStep(ctx, state, i) ==
  LET split == ctx.splits[i]
      separatorText == IF i < Len(ctx.splits) THEN ctx.separator ELSE <<>>
      currentChunk == state.currentChunk
      potentialChunk ==
        currentChunk \o (IF currentChunk # <<>> THEN separatorText ELSE <<>>) \o split
  IN  IF Len(potentialChunk) <= CHUNK_SIZE
      THEN [chunks |-> state.chunks, currentChunk |-> potentialChunk, calls |-> state.calls]
      ELSE LET flushed == IF currentChunk # <<>> THEN Append(state.chunks, currentChunk)
                                                 ELSE state.chunks
           IN  IF Len(split) > CHUNK_SIZE
               THEN The({ LET subSplits == sub.out
                              last == IF Len(subSplits) > 0 /\ subSplits[Len(subSplits)] # <<>>
                                      THEN subSplits[Len(subSplits)]
                                      ELSE Substring(split, 0, CHUNK_SIZE)
                          IN  [chunks |-> flushed \o SubSeq(subSplits, 1, Len(subSplits) - 1),
                               currentChunk |-> last,
                               calls |-> state.calls
                                           \o << [caller |-> ctx.text, input |-> split] >>
                                           \o sub.calls]
                          : sub \in { SplitCall(split, 1) } })
               ELSE [chunks |-> flushed, currentChunk |-> split, calls |-> state.calls]

\* lines 116-144: the packing loop and the push of the last chunk
Pack(t, splits, separator) ==
  The({ [chunks |-> IF end.currentChunk # <<>> THEN Append(end.chunks, end.currentChunk)
                                               ELSE end.chunks,
         calls |-> end.calls]
        : end \in { Loop("pack", [text |-> t, splits |-> splits, separator |-> separator],
                         [chunks |-> <<>>, currentChunk |-> <<>>, calls |-> <<>>],
                         1, Len(splits)) } })

\* One call of splitText from separator number si on.  packed: the call
\* returned from the packing branch; chunks: its chunks before the overlap
\* pass (line 146); out: what it returns; calls: the recursive calls made.
SplitCall(t, si) ==
  IF si > Len(SEPARATORS)
  THEN LET f == Fallback(t) IN [packed |-> FALSE, chunks |-> f, out |-> f, calls |-> <<>>]
  ELSE IF Len(t) <= CHUNK_SIZE
  THEN [packed |-> FALSE, chunks |-> << t >>, out |-> << t >>, calls |-> <<>>]
  ELSE LET separator == SEPARATORS[si]
       IN  The({ IF Len(splits) > 1
                 THEN The({ [packed |-> TRUE, chunks |-> p.chunks, out |-> AddOverlap(p.chunks),
                             calls |-> p.calls]
                            : p \in { Pack(t, splits, separator) } })
                 ELSE SplitCall(t, si + 1)
                 : splits \in { IF separator # <<>> THEN Split(t, separator) ELSE << t >> } })

splitText(t) == SplitCall(t, 1).out

(***************************************************************************)
(* The sliding window and the sentence strategies of processFiles.          *)
(***************************************************************************)
\* lines 289-296: iteration k of the loop, start = k * stepSize; done: the
\* loop was left by the break of line 295
slidingStep(t, state, k) ==
  LET stepSize == CHUNK_SIZE - CHUNK_OVERLAP
      start == k * stepSize
      end == start + CHUNK_SIZE
      chunk == Substring(t, start, end)
  IN  IF state.done \/ ~(start < Len(t)) THEN state
      ELSE [chunks |-> IF Len(Trim(chunk)) >= MIN_CHUNK_LEN THEN Append(state.chunks, chunk)
                                                            ELSE state.chunks,
            done |-> end >= Len(t)]

slidingLoop(t) ==
  Loop("sliding", t, [chunks |-> <<>>, done |-> FALSE],
       0, Len(t) \div (CHUNK_SIZE - CHUNK_OVERLAP))

slidingWindow(t) == slidingLoop(t).chunks

\* text.split(/(?<=[.!?])\s+/), line 299, at the k-th white space that
\* follows a '.', '!' or '?': the text is cut there, and the whole run of
\* white space is left out
IsSentenceEnd(c) == c \in {".", "!", "?"}

sentencesStep(ctx, state, k) ==
  LET i == ctx.at[k]
  IN  [pieces |-> Append(state.pieces, SubSeq(ctx.t, state.start, i - 1)),
       start |-> SkipSpaces(ctx.t, i)]

splitSentences(t) ==
  LET at == SelectSeq([i \in 1..Len(t) |-> i],
                      LAMBDA i : IsSpace(t[i]) /\ i > 1 /\ IsSentenceEnd(t[i - 1]))
      end == Loop("sentences", [t |-> t, at |-> at], [pieces |-> <<>>, start |-> 1],
                  1, Len(at))
  IN  Append(end.pieces, SubSeq(t, end.start, Len(t)))

\* lines 302-309: one iteration of the loop over the sentences
sentenceStep(sentences, state, i) ==
  LET sentence == sentences[i]
      current == state.current
  IN  IF Len(current) + Len(sentence) < CHUNK_SIZE
      THEN [chunks |-> state.chunks,
            current |-> current \o (IF current # <<>> THEN << " " >> ELSE <<>>) \o sentence]
      ELSE [chunks |-> IF current # <<>> THEN Append(state.chunks, current) ELSE state.chunks,
            current |-> sentence]

\* lines 299-310
sentenceChunks(t) ==
  LET sentences == splitSentences(t)
      end == Loop("sentence", sentences, [chunks |-> <<>>, current |-> <<>>], 1, Len(sentences))
  IN  IF end.current # <<>> THEN Append(end.chunks, end.current) ELSE end.chunks

(***************************************************************************)
(* Combine and deduplicate, lines 312-323.                                  *)
(***************************************************************************)
\* Normalized without the lower-casing
NormalizedCased(chunk) == Substring(Trim(chunk), 0, SIGNATURE_LEN)

\* line 318
Normalized(chunk) == Substring(ToLowerCase(Trim(chunk)), 0, SIGNATURE_LEN)

\* dedupStep without the minimum length test
dedupStepNoMin(all, state, i) ==
  LET chunk == all[i]
      normalized == Normalized(chunk)
  IN  IF normalized \notin state.seenTexts
      THEN [uniqueChunks |-> Append(state.uniqueChunks, chunk),
            seenTexts |-> state.seenTexts \cup {normalized}]
      ELSE state

\* lines 317-322: one iteration of the loop over allStrategyChunks
dedupStep(all, state, i) ==
  LET chunk == all[i]
      normalized == Normalized(chunk)
  IN  IF normalized \notin state.seenTexts /\ Len(Trim(chunk)) >= MIN_CHUNK_LEN
      THEN [uniqueChunks |-> Append(state.uniqueChunks, chunk),
            seenTexts |-> state.seenTexts \cup {normalized}]
      ELSE state

\* one iteration of the loop named
LoopBody(name, ctx, state, i) ==
  CASE name = "split"     -> splitStep(ctx, state, i)
    [] name = "pack"      -> packStep(ctx, state, i)
    [] name = "fallback"  -> fallbackStep(ctx, state, i)
    [] name = "sliding"   -> slidingStep(ctx, state, i)
    [] name = "sentences" -> sentencesStep(ctx, state, i)
    [] name = "sentence"  -> sentenceStep(ctx, state, i)
    [] name = "dedup"     -> dedupStep(ctx, state, i)

\* the iterations lo..hi of the loop named, from a context and a state that
\* have been computed
LoopRun(name, ctx, state, lo, hi) ==
  IF lo > hi THEN state
  ELSE IF lo = hi THEN LoopBody(name, ctx, state, lo)
  ELSE LET mid == (lo + hi) \div 2
       IN  \* the state after the first half is computed before the second
           \* half begins
           The({ LoopRun(name, ctx, left, mid + 1, hi)
                 : left \in { LoopRun(name, ctx, state, lo, mid) } })

\* the context and the starting state are computed once, before the first
\* iteration
Loop(name, ctx, state, lo, hi) ==
  The({ LoopRun(name, c, s, lo, hi) : c \in { ctx }, s \in { state } })

\* lines 313-323
Dedup(all) ==
  Loop("dedup", all, [uniqueChunks |-> <<>>, seenTexts |-> {}], 1, Len(all)).uniqueChunks

\* lines 283-323 for one preprocessed text
chunkDocument(t) ==
  The({ [primary |-> call.out, packed |-> call.packed, pre |-> call.chunks,
         sliding |-> sliding, sentence |-> sentence,
         unique |-> Dedup(call.out \o sliding \o sentence)]
        : call \in { SplitCall(t, 1) }, sliding \in { slidingWindow(t) },
          sentence \in { sentenceChunks(t) } })

(***************************************************************************)
(* The file system of an ingestion run.  A path is its stem and its        *)
(* extension; Disk gives what fs finds there.                               *)
(***************************************************************************)
LongWords == 50

\* a text of LongWords words of 55 letters, no two alike, joined by blanks
LongText ==
  Join([k \in 1..LongWords |-> Repeat("b", k) \o Repeat("a", 55 - k)], << " " >>)

\* two sentences on two lines
NoteText == Repeat("a", 30) \o << ".", "\n" >> \o Repeat("b", 40) \o << "." >>

\* three paragraphs
PaperText ==
  Repeat("a", 70) \o << "\n", "\n" >> \o Repeat("b", 70) \o << "\n", "\n" >> \o Repeat("a", 60)

TXT == << ".", "t", "x", "t" >>
Paths ==
  { [stem |-> "gone",   ext |-> TXT],
    [stem |-> "image",  ext |-> << ".", "p", "n", "g" >>],
    [stem |-> "paper",  ext |-> << ".", "p", "d", "f" >>],
    [stem |-> "locked", ext |-> TXT],
    [stem |-> "empty",  ext |-> << ".", "m", "d" >>],
    [stem |-> "note",   ext |-> << ".", "T", "X", "T" >>],
    [stem |-> "book",   ext |-> TXT],
    [stem |-> "book",   ext |-> << ".", "m", "d", "x" >>] }

Disk(p) ==
  CASE p.stem = "gone"   -> [exists |-> FALSE, readable |-> FALSE, content |-> <<>>]
    [] p.stem = "locked" -> [exists |-> TRUE,  readable |-> FALSE, content |-> <<>>]
    [] p.stem = "empty"  -> [exists |-> TRUE,  readable |-> TRUE,  content |-> <<>>]
    [] p.stem = "note"   -> [exists |-> TRUE,  readable |-> TRUE,  content |-> NoteText]
    [] p.stem = "book" /\ p.ext = TXT
                         -> [exists |-> TRUE,  readable |-> TRUE,  content |-> LongText]
    [] OTHER             -> [exists |-> TRUE,  readable |-> TRUE,  content |-> PaperText]

\* path.extname(filePath), path.basename(filePath) and
\* path.basename(filePath, path.extname(filePath)); the stem is kept whole
extname(p) == p.ext
basename(p) == << p.stem >> \o p.ext
prefixOf(p) == p.stem

\* readTextFile, lines 194-204; ok = FALSE: it threw (readFileSync failed,
\* a PDF, or an unsupported type)
readTextFile(p) ==
  LET ext == ToLowerCase(extname(p))
  IN  IF ext \in { TXT, << ".", "m", "d" >>, << ".", "m", "d", "x" >> }
      THEN IF Disk(p).readable THEN [ok |-> TRUE, text |-> Disk(p).content]
                               ELSE [ok |-> FALSE, text |-> <<>>]
      ELSE [ok |-> FALSE, text |-> <<>>]

\* i.toString()
DigitChars == << "0", "1", "2", "3", "4", "5", "6", "7", "8", "9" >>
RECURSIVE NumberToString(_)
NumberToString(n) ==
  IF n < 10 THEN << DigitChars[n + 1] >>
  ELSE NumberToString(n \div 10) \o << DigitChars[(n % 10) + 1] >>

\* s.padStart(width, c)
PadStart(s, width, c) == Repeat(c, Max(0, width - Len(s))) \o s

\* line 336
chunkId(prefix, i) == << prefix, "_chunk_" >> \o PadStart(NumberToString(i), 4, "0")

\* line 344: chunkText.substring(0, 100).replace(/\n/g, ' ') + '...'
preview(chunkText) ==
  LET head == Substring(chunkText, 0, 100)
  IN  [i \in 1..Len(head) |-> IF head[i] = "\n" THEN " " ELSE head[i]] \o << ".", ".", "." >>

\* line 343: `${i + 1}/${uniqueChunks.length}`
chunkPosition(i, n) == NumberToString(i + 1) \o << "/" >> \o NumberToString(n)

\* the chunk objects of one document with chunk_index counted from 1
chunkObjectsFromOne(p, unique) ==
  [k \in 1..Len(unique) |->
     [id |-> chunkId(prefixOf(p), k - 1),
      text |-> unique[k],
      metadata |-> [source |-> basename(p),
                    chunk_index |-> k,
                    total_chunks |-> Len(unique),
                    char_count |-> Len(unique[k]),
                    chunk_position |-> chunkPosition(k - 1, Len(unique)),
                    preview |-> preview(unique[k]),
                    text |-> unique[k],
                    content |-> unique[k],
                    chunk |-> unique[k]]]]

\* lines 333-351: the chunk objects of one document
chunkObjects(p, unique) ==
  [k \in 1..Len(unique) |->
     [id |-> chunkId(prefixOf(p), k - 1),
      text |-> unique[k],
      metadata |-> [source |-> basename(p),
                    chunk_index |-> k - 1,
                    total_chunks |-> Len(unique),
                    char_count |-> Len(unique[k]),
                    chunk_position |-> chunkPosition(k - 1, Len(unique)),
                    preview |-> preview(unique[k]),
                    text |-> unique[k],
                    content |-> unique[k],
                    chunk |-> unique[k]]]]

\* lines 272-323 for the content of every path, as a table computed once
UniqueChunksOf ==
  [p \in Paths |-> chunkDocument(preprocessText(Disk(p).content)).unique]

\* the loop of line 254 left at a missing file instead of continued
nextFileIdxBreak(p, idx, n) == IF ~Disk(p).exists THEN n ELSE idx + 1

\* lines 254-269: after a document, read or not, the loop goes on to the next
nextFileIdx(p, idx, n) == idx + 1

\* one iteration of the loop of line 254: the chunk objects the document adds
documentChunks(p) ==
  IF ~Disk(p).exists THEN <<>>
  ELSE IF ~readTextFile(p).ok THEN <<>>
  ELSE chunkObjects(p, UniqueChunksOf[p])

\* the check of lines 378-382 made on the first vector only
dimensionsValidFirst(batchEmbeddings) ==
  Len(batchEmbeddings) = 0 \/ batchEmbeddings[1] = INDEX_DIM

\* lines 378-382: no vector of the batch has another length than INDEX_DIM
dimensionsValid(batchEmbeddings) ==
  \A k \in 1..Len(batchEmbeddings) : batchEmbeddings[k] = INDEX_DIM

\* texts.slice(i, i + BATCH_SIZE) and recordsToUpsert.slice(i, i + UPLOAD_BATCH_SIZE)
Slice(s, from, to) == Substring(s, from, to)

\* line 419 counting batches instead of records
failedAfterOne(failed, batch) == failed + 1

\* line 419
failedAfter(failed, batch) == failed + Len(batch)

\* line 416
successfulAfter(successful, batch) == successful + Len(batch)

\* lines 399-403
zipRecords(chunks, vectors) ==
  [k \in 1..Len(chunks) |->
     [id |-> chunks[k].id,
      values |-> IF k <= Len(vectors) THEN vectors[k] ELSE 0,
      metadata |-> chunks[k].metadata]]

(***************************************************************************)
(* The documents the chunking is checked on: three words joined by two      *)
(* separators.  A word is a run of one letter, lower or upper case, of up   *)
(* to MaxWordUnits units of WordUnit characters.                            *)
(***************************************************************************)
WordUnit == 30
MaxWordUnits == 2

Words == {Repeat(c, k * WordUnit) : c \in {"a", "A"}, k \in 0..MaxWordUnits}
WordSeps == { <<" ">>, <<".", " ">>, <<".", "\n">>, <<"\n", "\n", "\n">>, <<"\t", "\f", " ">> }
\* a short last word lets the last split fit into the buffer it is joined to
ShortWord == 8
LastWords == Words \cup {Repeat("b", ShortWord)}
\* two words with nothing between them make a run no separator splits
FirstSeps == WordSeps \cup { <<>> }
RawTexts == {w1 \o s1 \o w2 \o s2 \o w3 : w1 \in Words, s1 \in FirstSeps, w2 \in Words,
                                          s2 \in WordSeps, w3 \in LastWords}

\* no ingestion run
IngestIdle ==
  /\ ipc = "off"
  /\ env = [OPENAI_API_KEY |-> FALSE, PINECONE_API_KEY |-> FALSE, PINECONE_INDEX |-> FALSE,
            PINECONE_NAMESPACE |-> <<>>]
  /\ filePaths = <<>>
  /\ fileIdx = 0
  /\ allChunks = <<>>
  /\ embI = 0
  /\ embeddings = <<>>
  /\ recordsToUpsert = <<>>
  /\ upI = 0
  /\ successfulUploads = 0
  /\ failedUploads = 0
  /\ requests = <<>>
  /\ uploadLog = <<>>
  /\ lastVectors = <<>>
  /\ ierror = [kind |-> "none", status |-> 0]

\* no document being chunked
ChunkIdle ==
  /\ cpc = "off"
  /\ text = <<>>
  /\ chunksPrimary = <<>>
  /\ packedPrimary = FALSE
  /\ prePrimary = <<>>
  /\ chunksSliding = <<>>
  /\ chunksSentence = <<>>
  /\ uniqueChunks = <<>>

\* no chat-completion request has been made
CompletionFresh ==
  /\ completionCalls = 0
  /\ cRetryCount = 0
  /\ completionLog = <<>>
  /\ cwaits = <<>>
  /\ responseMessage = [kind |-> "none", text |-> <<>>]

\* no request is being handled
HandlerIdle ==
  /\ CompletionFresh
  /\ hpc = "off"
  /\ request = [body |-> "empty", messages |-> <<>>]
  /\ hRetryCount = 0
  /\ hwaits = <<>>
  /\ hfailures = <<>>
  /\ wrapperOutcome = "none"
  /\ wrapperError = <<>>
  /\ context = <<>>
  /\ response = [status |-> 0, error |-> "none"]

\* no getContext call has been made
RetrievalFresh ==
  /\ pineconeClient = FALSE
  /\ invocation = 0
  /\ queryPending = {}
  /\ timerPending = {}
  /\ message = <<>>
  /\ namespace = <<>>
  /\ maxTokens = 0
  /\ minScore = 0
  /\ getOnlyText = TRUE
  /\ retryCount = 0
  /\ embedCalls = <<>>
  /\ embedOutcomes = <<>>
  /\ waits = <<>>
  /\ embedding = 0
  /\ queries = <<>>
  /\ matches = <<>>
  /\ qualifyingDocs = <<>>
  /\ docs = <<>>
  /\ result = <<>>
  /\ gerror = "none"
  /\ gmessage = <<>>
  /\ raceLog = <<>>

ContextIdle ==
  /\ gpc = "off"
  /\ genv = [OPENAI_API_KEY |-> <<>>, PINECONE_API_KEY |-> <<>>, PINECONE_INDEX |-> <<>>,
             PINECONE_NAMESPACE |-> <<>>]
  /\ RetrievalFresh
  /\ HandlerIdle

ChunkInit ==
  /\ IngestIdle
  /\ ContextIdle
  /\ cpc = "read"
  /\ text \in RawTexts
  /\ chunksPrimary = <<>>
  /\ packedPrimary = FALSE
  /\ prePrimary = <<>>
  /\ chunksSliding = <<>>
  /\ chunksSentence = <<>>
  /\ uniqueChunks = <<>>

\* line 272
Preprocess ==
  /\ cpc = "read"
  /\ text' = preprocessText(text)
  /\ cpc' = "preprocessed"
  /\ UNCHANGED << chunksPrimary, packedPrimary, prePrimary, chunksSliding,
                  chunksSentence, uniqueChunks >>
  /\ UNCHANGED << ingestVars, contextVars >>

\* lines 283-323
ChunkDocument ==
  /\ cpc = "preprocessed"
  /\ \E r \in {chunkDocument(text)} :
         /\ chunksPrimary' = r.primary
         /\ packedPrimary' = r.packed
         /\ prePrimary' = r.pre
         /\ chunksSliding' = r.sliding
         /\ chunksSentence' = r.sentence
         /\ uniqueChunks' = r.unique
  /\ cpc' = "chunked"
  /\ UNCHANGED text
  /\ UNCHANGED << ingestVars, contextVars >>

ChunkNext == Preprocess \/ ChunkDocument

SpecChunk == ChunkInit /\ [][ChunkNext]_vars

(***************************************************************************)
(* Claims about the chunking of one document (under SpecChunk).             *)
(***************************************************************************)
\* the last k characters of s
LastChars(s, k) == SubSeq(s, Len(s) - k + 1, Len(s))

\* the sentences of t joined again by single blanks
Rejoined(t) == Join(splitSentences(t), << " " >>)

\* C1 as stated: a preprocessed text shorter than chunkSize yields exactly
\* one chunk, equal to the preprocessed text.
C1_Original ==
  (cpc = "chunked" /\ Len(text) < CHUNK_SIZE)
    => (Len(uniqueChunks) = 1 /\ uniqueChunks[1] = text)

\* C1 (amended): for a preprocessed text shorter than chunkSize the primary
\* strategy returns exactly the text; the deduplicated result is empty when
\* the text has fewer than 50 characters; otherwise its first chunk is the
\* text, and a second (and last) chunk follows exactly when the sentence
\* strategy's re-join of the text differs from the text and has at least 50
\* characters, and then it is that re-join.
C1_ShortText ==
  (cpc = "chunked" /\ Len(text) < CHUNK_SIZE) =>
    /\ chunksPrimary = << text >>
    /\ Len(text) < MIN_CHUNK_LEN => uniqueChunks = <<>>
    /\ Len(text) >= MIN_CHUNK_LEN =>
         LET rejoined == Rejoined(text)
         IN  IF rejoined # text /\ Len(rejoined) >= MIN_CHUNK_LEN
             THEN uniqueChunks = << text, rejoined >>
             ELSE uniqueChunks = << text >>

\* a short text that yields two chunks, and one of them is not the text
C1_Witness ==
  /\ cpc = "chunked"
  /\ Len(text) < CHUNK_SIZE
  /\ Len(uniqueChunks) = 2
  /\ uniqueChunks[2] # text

\* C2: when the top-level splitText call packs its input into N > 1 pieces,
\* returned piece i >= 1 is the last min(chunkOverlap, length) characters of
\* the call's pre-overlap piece i-1 followed by pre-overlap piece i, and
\* piece 0 is returned unmodified.
C2_Overlap ==
  (cpc = "chunked" /\ packedPrimary /\ Len(prePrimary) > 1 /\ CHUNK_OVERLAP > 0) =>
    /\ Len(chunksPrimary) = Len(prePrimary)
    /\ chunksPrimary[1] = prePrimary[1]
    /\ \A i \in 2..Len(prePrimary) :
         chunksPrimary[i] =
           LastChars(prePrimary[i - 1], Min(CHUNK_OVERLAP, Len(prePrimary[i - 1])))
             \o prePrimary[i]

\* a packed call with three pieces, one of them shorter than the overlap
C2_Witness ==
  /\ cpc = "chunked"
  /\ packedPrimary
  /\ Len(prePrimary) >= 3
  /\ \E i \in 1..(Len(prePrimary) - 1) : Len(prePrimary[i]) < CHUNK_OVERLAP

\* the signature of the claim: trim, lower-case, first 100 characters
C3_Signature(chunk) ==
  LET low == ToLowerCase(Trim(chunk)) IN SubSeq(low, 1, Min(Len(low), 100))

\* the three strategies' output in emission order
C3_Emitted == chunksPrimary \o chunksSliding \o chunksSentence

\* the positions of emitted that are long enough and repeat no earlier
\* signature; sigs are the signatures of emitted
C3_FirstOccurrences(emitted, sigs) ==
  {k \in 1..Len(emitted) :
     /\ Len(Trim(emitted[k])) >= 50
     /\ \A j \in 1..(k - 1) : sigs[j] # sigs[k]}

\* C3: after combine-and-dedup no two kept chunks have the same signature,
\* every kept chunk has trimmed length >= 50, and the kept chunks are the
\* first occurrences, in emission order (primary, sliding window, sentence).
C3_Dedup ==
  cpc = "chunked" =>
    LET emitted == C3_Emitted
        sigs == [k \in 1..Len(emitted) |-> C3_Signature(emitted[k])] \o <<>>
        kept == [k \in 1..Len(uniqueChunks) |-> C3_Signature(uniqueChunks[k])] \o <<>>
        first == C3_FirstOccurrences(emitted, sigs)
    IN  /\ \A i, j \in 1..Len(uniqueChunks) : i # j => kept[i] # kept[j]
        /\ \A i \in 1..Len(uniqueChunks) : Len(Trim(uniqueChunks[i])) >= 50
        /\ Len(uniqueChunks) = Cardinality(first)
        /\ \A k \in first :
             uniqueChunks[Cardinality({j \in first : j <= k})] = emitted[k]

\* chunks were dropped both as duplicates that differ in case only and for
\* being too short, and more than one chunk was kept
C3_Witness ==
  /\ cpc = "chunked"
  /\ Len(uniqueChunks) > 1
  /\ \E i, j \in 1..Len(C3_Emitted) :
       /\ i < j
       /\ C3_Emitted[i] # C3_Emitted[j]
       /\ Len(Trim(C3_Emitted[j])) >= 50
       /\ C3_Signature(C3_Emitted[i]) = C3_Signature(C3_Emitted[j])
  /\ \E i \in 1..Len(C3_Emitted) : Len(Trim(C3_Emitted[i])) < 50

\* The pieces of a text when no overlap is added at any level: the packing
\* of lines 113-144 with the recursive calls of line 133, and windows side by
\* side where no separator splits the text.
RECURSIVE C22_PlainCall(_, _)
RECURSIVE C22_PlainPack(_, _, _, _, _)
C22_PlainPack(splits, separator, i, chunks, currentChunk) ==
  IF i > Len(splits)
  THEN IF currentChunk # <<>> THEN Append(chunks, currentChunk) ELSE chunks
  ELSE LET split == splits[i]
           separatorText == IF i < Len(splits) THEN separator ELSE <<>>
           potentialChunk ==
             currentChunk \o (IF currentChunk # <<>> THEN separatorText ELSE <<>>) \o split
           flushed == IF currentChunk # <<>> THEN Append(chunks, currentChunk) ELSE chunks
           sub == C22_PlainCall(split, 1)
       IN  IF Len(potentialChunk) <= CHUNK_SIZE
           THEN C22_PlainPack(splits, separator, i + 1, chunks, potentialChunk)
           ELSE IF Len(split) > CHUNK_SIZE
           THEN C22_PlainPack(splits, separator, i + 1,
                              flushed \o SubSeq(sub, 1, Len(sub) - 1), sub[Len(sub)])
           ELSE C22_PlainPack(splits, separator, i + 1, flushed, split)

C22_PlainCall(t, si) ==
  IF si > Len(SEPARATORS)
  THEN [k \in 1..((Len(t) + CHUNK_SIZE - 1) \div CHUNK_SIZE) |->
          Substring(t, (k - 1) * CHUNK_SIZE, k * CHUNK_SIZE)]
  ELSE IF Len(t) <= CHUNK_SIZE THEN << t >>
  ELSE LET separator == SEPARATORS[si]
           splits == IF separator # <<>> THEN Split(t, separator) ELSE << t >>
       IN  IF Len(splits) > 1 THEN C22_PlainPack(splits, separator, 1, <<>>, <<>>)
           ELSE C22_PlainCall(t, si + 1)

\* C22 as stated: overlap is added once per piece, also when an oversized
\* piece is split by a recursive splitText call: the first returned piece is
\* the first overlap-free piece, and each returned piece after it is a suffix
\* of at most chunkOverlap characters of the overlap-free piece before it,
\* followed by its own overlap-free piece.
C22_Original ==
  cpc = "chunked" =>
     LET plain == C22_PlainCall(text, 1)
     IN  /\ Len(chunksPrimary) = Len(plain)
         /\ chunksPrimary[1] = plain[1]
         /\ \A i \in 2..Len(plain) :
               \E k \in 0..Min(CHUNK_OVERLAP, Len(plain[i - 1])) :
                  chunksPrimary[i] = LastChars(plain[i - 1], k) \o plain[i]

\* whether piece occurs in t as a run of consecutive characters
C23_Substring(t, piece) == \E i \in 1..(Len(t) - Len(piece) + 1) : OccursAt(t, piece, i)

\* C23 as stated: every piece the packing step of splitText produces, before
\* overlap is added, is a contiguous substring of the input text: the splits
\* packed into one buffer are joined by the separator that stood between them,
\* the join with the last split included.
C23_Original ==
  (cpc = "chunked" /\ packedPrimary) =>
     \A i \in 1..Len(prePrimary) : C23_Substring(text, prePrimary[i])

\* C24 as stated: every buffer the sentence-accumulation strategy flushes is
\* shorter than chunkSize.
C24_Original ==
  cpc = "chunked" => \A i \in 1..Len(chunksSentence) : Len(chunksSentence[i]) < CHUNK_SIZE

\* C28 as stated: every piece the primary strategy returns has at most
\* chunkSize + chunkOverlap characters.
C28_Original ==
  cpc = "chunked" =>
     \A i \in 1..Len(chunksPrimary) : Len(chunksPrimary[i]) <= CHUNK_SIZE + CHUNK_OVERLAP

\* the recursive calls of splitText made while the text is split
C29_Calls == SplitCall(text, 1).calls

\* the texts splitText is called on: the document's and those of the
\* recursive calls
C29_Inputs == {text} \cup {C29_Calls[i].input : i \in 1..Len(C29_Calls)}

\* C29: splitText and the sliding-window loop terminate.  Every recursive call
\* of splitText is made on a string strictly shorter than the text of the call
\* that makes it; on every text splitText is called on, the counter of the
\* character-window loop reaches the length of the text within as many
\* iterations as the text has characters; and the sliding-window loop has
\* left through its break within Len(text) \div stepSize + 1 iterations.
C29_Terminates ==
  cpc = "chunked" =>
     /\ \A i \in 1..Len(C29_Calls) : Len(C29_Calls[i].input) < Len(C29_Calls[i].caller)
     /\ \A t \in C29_Inputs : fallbackLoop(t).i >= Len(t)
     /\ text # <<>> => slidingLoop(text).done

\* a document one of whose splits is longer than chunkSize and has no
\* separator in it, so that a recursive call runs the character-window loop,
\* and which is long enough for several sliding windows
C29_Witness ==
  /\ cpc = "chunked"
  /\ \E i \in 1..Len(C29_Calls) :
        LET call == SplitCall(C29_Calls[i].input, 1)
        IN  /\ ~call.packed
            /\ Len(call.out) > 1
  /\ Len(chunksSliding) > 1

(***************************************************************************)
(* An ingestion run: processFiles, lines 210-461.  An action is the code    *)
(* between two awaits.                                                      *)
(***************************************************************************)
MaxDocs == 2

RECURSIVE SeqsUpTo(_, _)
SeqsUpTo(S, n) ==
  IF n = 0 THEN { <<>> }
  ELSE LET shorter == SeqsUpTo(S, n - 1)
       IN  shorter \cup {Append(q, x) : q \in {r \in shorter : Len(r) = n - 1}, x \in S}

Environments ==
  [OPENAI_API_KEY : BOOLEAN, PINECONE_API_KEY : BOOLEAN, PINECONE_INDEX : BOOLEAN,
   PINECONE_NAMESPACE : { <<>>, << "n", "s" >> }]

\* what the embedding provider may answer to a batch of n texts: one vector
\* per text, of the expected length or with one vector of another length
VectorsFor(n) ==
  { [k \in 1..n |-> INDEX_DIM] }
    \cup { [k \in 1..n |-> IF k = bad THEN 768 ELSE INDEX_DIM] : bad \in {1, n} }

\* the statuses a failed provider request may carry
ErrorStatuses == {401, 429, 500}

Request(kind, from, count) == [kind |-> kind, from |-> from, count |-> count]

DEFAULT_NAMESPACE == << "d", "e", "f", "a", "u", "l", "t" >>

\* main, line 477: process.env.PINECONE_NAMESPACE || 'default', handed to
\* processFiles (line 480); an unset value is the empty string here
ingestNamespace(value) == IF value # <<>> THEN value ELSE DEFAULT_NAMESPACE

\* lines 226 and 415: an upsert goes to index.namespace(namespace)
UpsertRequest(ns, from, count) ==
  [kind |-> "upsert", from |-> from, count |-> count, namespace |-> ns]

\* the embedding loop with a single iteration
moreEmbeddingBatchesNever(i, n) == FALSE

\* line 365: the loop goes on to the batch at i when i < texts.length
moreEmbeddingBatches(i, n) == i < n

NoError == [kind |-> "none", status |-> 0]

IngestInit ==
  /\ ChunkIdle
  /\ ContextIdle
  /\ ipc = "start"
  /\ env \in Environments
  /\ filePaths \in SeqsUpTo(Paths, MaxDocs)
  /\ fileIdx = 0
  /\ allChunks = <<>>
  /\ embI = 0
  /\ embeddings = <<>>
  /\ recordsToUpsert = <<>>
  /\ upI = 0
  /\ successfulUploads = 0
  /\ failedUploads = 0
  /\ requests = <<>>
  /\ uploadLog = <<>>
  /\ lastVectors = <<>>
  /\ ierror = NoError

\* lines 211-218: the clients and the index name
StartRun ==
  /\ ipc = "start"
  /\ IF env.PINECONE_API_KEY /\ env.OPENAI_API_KEY /\ env.PINECONE_INDEX
     THEN ipc' = "documents" /\ ierror' = ierror
     ELSE ipc' = "failed" /\ ierror' = [kind |-> "config", status |-> 0]
  /\ UNCHANGED << env, filePaths, fileIdx, allChunks, embI, embeddings, recordsToUpsert, upI,
                  successfulUploads, failedUploads, requests, uploadLog, lastVectors >>
  /\ UNCHANGED << chunkVars, contextVars >>

\* lines 254-352: one iteration of the document loop
ProcessDocument ==
  /\ ipc = "documents"
  /\ fileIdx < Len(filePaths)
  /\ allChunks' = allChunks \o documentChunks(filePaths[fileIdx + 1])
  /\ fileIdx' = nextFileIdx(filePaths[fileIdx + 1], fileIdx, Len(filePaths))
  /\ UNCHANGED << ipc, env, filePaths, embI, embeddings, recordsToUpsert, upI,
                  successfulUploads, failedUploads, requests, uploadLog, lastVectors, ierror >>
  /\ UNCHANGED << chunkVars, contextVars >>

\* lines 354-373: after the loop, return if there is nothing to upload, else
\* request the embeddings of the first batch
FinishDocuments ==
  /\ ipc = "documents"
  /\ fileIdx >= Len(filePaths)
  /\ IF Len(allChunks) = 0
     THEN ipc' = "done" /\ requests' = requests
     ELSE /\ ipc' = "awaitEmbedding"
          /\ requests' = Append(requests,
                                Request("embed", 0, Len(Slice(allChunks, 0, BATCH_SIZE))))
  /\ UNCHANGED << env, filePaths, fileIdx, allChunks, embI, embeddings, recordsToUpsert, upI,
                  successfulUploads, failedUploads, uploadLog, lastVectors, ierror >>
  /\ UNCHANGED << chunkVars, contextVars >>

\* lines 389-392: the request of batch embI failed; the error is logged and
\* thrown again
EmbeddingFails ==
  /\ ipc = "awaitEmbedding"
  /\ \E status \in ErrorStatuses : ierror' = [kind |-> "provider", status |-> status]
  /\ ipc' = "failed"
  /\ UNCHANGED << env, filePaths, fileIdx, allChunks, embI, embeddings, recordsToUpsert, upI,
                  successfulUploads, failedUploads, requests, uploadLog, lastVectors >>
  /\ UNCHANGED << chunkVars, contextVars >>

\* lines 375-388 and on: the vectors of batch embI arrive; then the next
\* batch is requested or, after the last one, the records are built
\* (lines 399-403) and the first upsert is requested (lines 410-415)
EmbeddingReturns ==
  /\ ipc = "awaitEmbedding"
  /\ \E batchEmbeddings \in VectorsFor(Len(Slice(allChunks, embI, embI + BATCH_SIZE))) :
       /\ lastVectors' = batchEmbeddings
       /\ IF ~dimensionsValid(batchEmbeddings)
          THEN /\ ipc' = "failed"
               /\ ierror' = [kind |-> "dimension", status |-> 0]
               /\ UNCHANGED << embI, embeddings, recordsToUpsert, requests >>
          ELSE /\ embeddings' = embeddings \o batchEmbeddings
               /\ ierror' = ierror
               /\ IF moreEmbeddingBatches(embI + BATCH_SIZE, Len(allChunks))
                  THEN /\ embI' = embI + BATCH_SIZE
                       /\ ipc' = "awaitEmbedding"
                       /\ requests' = Append(requests,
                            Request("embed", embI + BATCH_SIZE,
                                    Len(Slice(allChunks, embI + BATCH_SIZE,
                                              embI + BATCH_SIZE + BATCH_SIZE))))
                       /\ recordsToUpsert' = recordsToUpsert
                  ELSE /\ embI' = embI + BATCH_SIZE
                       /\ recordsToUpsert' = zipRecords(allChunks, embeddings')
                       /\ ipc' = "awaitUpsert"
                       /\ requests' = Append(requests,
                            UpsertRequest(ingestNamespace(env.PINECONE_NAMESPACE), 0,
                                          Len(Slice(allChunks, 0, UPLOAD_BATCH_SIZE))))
  /\ UNCHANGED << env, filePaths, fileIdx, allChunks, upI, successfulUploads, failedUploads,
                  uploadLog >>
  /\ UNCHANGED << chunkVars, contextVars >>

\* lines 413-422: the upsert of batch upI settles; then the next batch is
\* upserted or, after the last one, the index statistics are requested
\* (line 427)
UpsertSettles ==
  /\ ipc = "awaitUpsert"
  /\ LET batch == Slice(recordsToUpsert, upI, upI + UPLOAD_BATCH_SIZE)
     IN  /\ \E ok \in BOOLEAN :
              /\ successfulUploads' =
                   IF ok THEN successfulAfter(successfulUploads, batch) ELSE successfulUploads
              /\ failedUploads' = IF ok THEN failedUploads ELSE failedAfter(failedUploads, batch)
              /\ uploadLog' = Append(uploadLog, [from |-> upI, count |-> Len(batch), ok |-> ok])
         /\ upI' = upI + UPLOAD_BATCH_SIZE
         /\ IF upI + UPLOAD_BATCH_SIZE < Len(recordsToUpsert)
            THEN /\ ipc' = "awaitUpsert"
                 /\ requests' = Append(requests,
                      UpsertRequest(ingestNamespace(env.PINECONE_NAMESPACE),
                                    upI + UPLOAD_BATCH_SIZE,
                                    Len(Slice(recordsToUpsert, upI + UPLOAD_BATCH_SIZE,
                                              upI + UPLOAD_BATCH_SIZE + UPLOAD_BATCH_SIZE))))
            ELSE /\ ipc' = "awaitStats"
                 /\ requests' = Append(requests, Request("stats", 0, 0))
  /\ UNCHANGED << env, filePaths, fileIdx, allChunks, embI, embeddings, recordsToUpsert,
                  lastVectors, ierror >>
  /\ UNCHANGED << chunkVars, contextVars >>

\* lines 426-461: describeIndexStats settles, either way the summary follows
StatsSettle ==
  /\ ipc = "awaitStats"
  /\ ipc' = "done"
  /\ UNCHANGED << env, filePaths, fileIdx, allChunks, embI, embeddings, recordsToUpsert, upI,
                  successfulUploads, failedUploads, requests, uploadLog, lastVectors, ierror >>
  /\ UNCHANGED << chunkVars, contextVars >>

Next ==
  \/ StartRun
  \/ ProcessDocument
  \/ FinishDocuments
  \/ EmbeddingFails
  \/ EmbeddingReturns
  \/ UpsertSettles
  \/ StatsSettle

Spec == IngestInit /\ [][Next]_vars

(***************************************************************************)
(* Claims about an ingestion run (under Spec).                              *)
(***************************************************************************)
\* the requests of one kind, in the order issued
RequestsOf(kind) == SelectSeq(requests, LAMBDA r : r.kind = kind)

RECURSIVE SumCounts(_)
SumCounts(log) == IF Len(log) = 0 THEN 0 ELSE log[1].count + SumCounts(Tail(log))

\* C6: if a vector returned for an embedding batch has a length other than
\* 1536, no vector of that batch is appended to embeddings, the run aborts
\* and no upsert is issued; and every record passed to upsert has values of
\* length exactly 1536.
C6_DimensionMismatch ==
  /\ (\E k \in 1..Len(lastVectors) : lastVectors[k] # 1536) =>
       /\ ipc = "failed"
       /\ Len(embeddings) = embI
       /\ RequestsOf("upsert") = <<>>
  /\ \A r \in 1..Len(requests) :
       requests[r].kind = "upsert" =>
         \A k \in (requests[r].from + 1)..(requests[r].from + requests[r].count) :
           recordsToUpsert[k].values = 1536

\* the second batch came back with its last vector of another length, after
\* the first batch had been appended
C6_Witness ==
  /\ ipc = "failed"
  /\ ierror.kind = "dimension"
  /\ embI > 0
  /\ Len(embeddings) > 0
  /\ lastVectors[1] = 1536
  /\ lastVectors[Len(lastVectors)] # 1536

\* C8 as stated: when the provider fails a batch request with status 429 or
\* 5xx, the same batch is requested once more before the failure is
\* surfaced, so a run that failed on such a status has requested the failed
\* batch twice.
C8_Original ==
  (ipc = "failed" /\ ierror.kind = "provider" /\ (ierror.status = 429 \/ ierror.status >= 500))
    => Len(SelectSeq(requests, LAMBDA r : r.kind = "embed" /\ r.from = embI)) >= 2

\* C9: when the upload loop has ended, the upsert requests are the batches
\* of up to 100 records at 0, 100, 200, ..., each once and in this order,
\* whatever the outcome of the batches before, and successfulUploads and
\* failedUploads are the numbers of records of the batches that succeeded
\* and that failed, which add up to the number of records.
C9_UploadLoop ==
  ipc \in {"awaitStats", "done"} /\ Len(recordsToUpsert) > 0 =>
    LET ups == RequestsOf("upsert")
        total == Len(recordsToUpsert)
    IN  /\ Len(ups) = (total + 99) \div 100
        /\ Len(uploadLog) = Len(ups)
        /\ \A k \in 1..Len(ups) :
             /\ ups[k].from = (k - 1) * 100
             /\ ups[k].count = Min(100, total - (k - 1) * 100)
             /\ uploadLog[k].from = ups[k].from
             /\ uploadLog[k].count = ups[k].count
        /\ successfulUploads = SumCounts(SelectSeq(uploadLog, LAMBDA u : u.ok))
        /\ failedUploads = SumCounts(SelectSeq(uploadLog, LAMBDA u : ~u.ok))
        /\ successfulUploads + failedUploads = total

\* a run of three batches whose first batch failed and whose later batches
\* succeeded
C9_Witness ==
  /\ ipc = "done"
  /\ Len(uploadLog) = 3
  /\ ~uploadLog[1].ok
  /\ uploadLog[2].ok
  /\ uploadLog[3].ok
  /\ uploadLog[3].count < 100

\* a document of the claim: missing, of an unsupported type, unreadable or empty
C10_Skipped(p) ==
  \/ ~Disk(p).exists
  \/ ToLowerCase(p.ext) \notin { << ".", "t", "x", "t" >>, << ".", "m", "d" >>,
                                << ".", "m", "d", "x" >> }
  \/ ~Disk(p).readable
  \/ Disk(p).content = <<>>

\* the chunk objects of the first n documents, the skipped ones left out
RECURSIVE C10_Pool(_, _)
C10_Pool(paths, n) ==
  IF n = 0 THEN <<>>
  ELSE C10_Pool(paths, n - 1)
         \o (IF C10_Skipped(paths[n]) THEN <<>>
             ELSE chunkObjects(paths[n], UniqueChunksOf[paths[n]]))

\* C10: a document that is missing, has an unsupported extension, cannot be
\* read or is empty contributes no chunk and does not stop the run: while
\* the loop runs the pool holds the chunks of the documents visited, and
\* once the configuration is accepted the run leaves the loop only with
\* every document visited and the chunks of all the others pooled.
C10_SkippedDocuments ==
  /\ ipc = "documents" => fileIdx <= Len(filePaths) /\ allChunks = C10_Pool(filePaths, fileIdx)
  /\ (ipc \notin {"start", "documents"} /\ ierror.kind # "config") =>
       /\ fileIdx = Len(filePaths)
       /\ allChunks = C10_Pool(filePaths, Len(filePaths))

\* a run whose first document is missing and whose second document was
\* chunked and pooled
C10_Witness ==
  /\ ipc = "awaitEmbedding"
  /\ Len(filePaths) = 2
  /\ ~Disk(filePaths[1]).exists
  /\ Len(allChunks) > 0

\* the ids of a list of records
C16_Ids(records) == { records[k].id : k \in 1..Len(records) }

\* C16 as stated: after a run over distinct paths in which every upload
\* batch succeeded, the namespace holds one record per chunk created in the
\* run: the ids of the chunks pooled over all documents are pairwise
\* distinct.
C16_Original ==
  (/\ ipc = "done"
   /\ failedUploads = 0
   /\ \A i, j \in 1..Len(filePaths) : i # j => filePaths[i] # filePaths[j]) =>
     /\ Cardinality(C16_Ids(allChunks)) = Len(allChunks)
     /\ Cardinality(C16_Ids(recordsToUpsert)) = Len(allChunks)

\* the number of chunks kept for a document
C17_Kept(p) == IF C10_Skipped(p) THEN 0 ELSE Len(UniqueChunksOf[p])

\* the number of chunks kept for the first n documents
RECURSIVE C17_Before(_, _)
C17_Before(paths, n) == IF n = 0 THEN 0 ELSE C17_Before(paths, n - 1) + C17_Kept(paths[n])

\* C17: every chunk record built by processFiles has char_count equal to the
\* length of its text, 0 <= chunk_index < total_chunks, total_chunks equal to
\* the number of chunks kept for its document; the chunk_index values of one
\* document are 0 .. total_chunks - 1, in order, with pairwise distinct ids;
\* metadata.text, metadata.content and metadata.chunk are the chunk text; and
\* the records to upsert carry the ids and the metadata of the chunks.
C17_Records ==
  /\ fileIdx <= Len(filePaths) => Len(allChunks) = C17_Before(filePaths, fileIdx)
  /\ \A n \in 1..Min(fileIdx, Len(filePaths)) :
        LET from == C17_Before(filePaths, n - 1)
            kept == C17_Kept(filePaths[n])
        IN  /\ \A k \in 1..kept :
                 LET c == allChunks[from + k]
                 IN  /\ c.text = UniqueChunksOf[filePaths[n]][k]
                     /\ c.metadata.char_count = Len(c.text)
                     /\ c.metadata.chunk_index = k - 1
                     /\ 0 <= c.metadata.chunk_index
                     /\ c.metadata.chunk_index < c.metadata.total_chunks
                     /\ c.metadata.total_chunks = kept
                     /\ c.metadata.text = c.text
                     /\ c.metadata.content = c.text
                     /\ c.metadata.chunk = c.text
            /\ Cardinality({ allChunks[from + k].id : k \in 1..kept }) = kept
  /\ \A k \in 1..Len(recordsToUpsert) :
        /\ recordsToUpsert[k].id = allChunks[k].id
        /\ recordsToUpsert[k].metadata = allChunks[k].metadata

\* C17 witness: a run over a document of 105 chunks and one of 7 has built
\* its 112 records
C17_Witness ==
  /\ ipc = "done"
  /\ Len(filePaths) = 2
  /\ Len(recordsToUpsert) = 112
  /\ allChunks[105].metadata.chunk_index = 104
  /\ allChunks[105].metadata.total_chunks = 105
  /\ allChunks[106].metadata.chunk_index = 0
  /\ allChunks[112].metadata.total_chunks = 7
  /\ recordsToUpsert[112].metadata.chunk = allChunks[112].text

\* C27: no upsert request is issued before every embedding batch has
\* returned successfully: when an upsert request has been issued, the embed
\* requests cover every chunk, each batch has returned its vectors, and every
\* embed request precedes every upsert request; and a run that ended on a
\* failed or rejected embedding batch has issued no upsert request and has
\* changed nothing in the index, whatever was embedded before.
C27_EmbedBeforeUpsert ==
  /\ RequestsOf("upsert") # <<>> =>
       /\ SumCounts(RequestsOf("embed")) = Len(allChunks)
       /\ Len(embeddings) = Len(allChunks)
       /\ \A i, k \in 1..Len(requests) :
            (requests[i].kind = "embed" /\ requests[k].kind = "upsert") => i < k
  /\ (ipc = "failed" /\ ierror.kind \in {"provider", "dimension"}) =>
       /\ RequestsOf("upsert") = <<>>
       /\ uploadLog = <<>>
       /\ successfulUploads = 0
       /\ failedUploads = 0

\* the second embedding batch failed at the provider after the first batch
\* had been embedded
C27_Witness ==
  /\ ipc = "failed"
  /\ ierror.kind = "provider"
  /\ embI > 0
  /\ Len(embeddings) = embI
  /\ Len(RequestsOf("embed")) = 2

(***************************************************************************)
(* Retrieval: getEmbeddings (part_001, lines 134-176),                      *)
(* getMatchesFromEmbeddings (part_002, lines 28-129) and getContext         *)
(* (part_001, lines 12-124).                                                *)
(***************************************************************************)
RETRY_DELAY_MS == 1000
TOP_K == 8

\* the status of an error that has none (e.status is undefined)
NoStatus == 0

\* A metadata value is a JavaScript string or number; Undefined is what the
\* read of an absent property gives.  An object is the sequence of its
\* entries in insertion order, no key twice.
Str(s) == [type |-> "string", str |-> s, num |-> 0]
Num(n) == [type |-> "number", str |-> <<>>, num |-> n]
Undefined == [type |-> "undefined", str |-> <<>>, num |-> 0]
Entry(k, v) == [key |-> k, value |-> v]

\* what JavaScript takes for true in a condition
Truthy(v) ==
  CASE v.type = "string" -> Len(v.str) > 0
    [] v.type = "number" -> v.num # 0
    [] OTHER             -> FALSE

\* a || b
Or(a, b) == IF Truthy(a) THEN a ELSE b

\* object[key]
Get(object, key) ==
  LET hits == SelectSeq(object, LAMBDA e : e.key = key)
  IN  IF Len(hits) = 0 THEN Undefined ELSE hits[1].value

\* a score, or the absence of one
Score(v) == [defined |-> TRUE, value |-> v]
NoScore == [defined |-> FALSE, value |-> 0]

\* an optional object of a query response
Present(entries) == [present |-> TRUE, entries |-> entries]
Absent == [present |-> FALSE, entries |-> <<>>]

\* the retry test of line 167 with one more retry allowed
ShouldRetryTwice(count, status) == count < 2 /\ (status = 429 \/ status >= 500)

\* line 167
ShouldRetry(count, status) == count < 1 /\ (status = 429 \/ status >= 500)

\* line 147: input.replace(/\n/g, ' ').trim()
embeddingInput(input) ==
  Trim([i \in 1..Len(input) |-> IF input[i] = "\n" THEN " " ELSE input[i]])

\* part_002, lines 93-114: a match of the query response as getContext gets it
normalizeMatch(match) ==
  [id |-> match.id,
   score |-> match.score,
   metadata |-> IF match.metadata.present THEN match.metadata.entries
                ELSE IF match.fields.present THEN match.fields.entries
                ELSE <<>>]

\* line 37: m.score && m.score > minScore
qualifies(m, min) ==
  /\ m.score.defined
  /\ m.score.value # 0
  /\ m.score.value > min

\* lines 70-77
TEXT_FIELDS ==
  << "chunk", "content", "text", "body", "message", "description", "pageContent", "value" >>

\* the first value that is a string of at least 10 characters with something
\* else than white space
firstTextValueLong(metadata) ==
  LET hits == SelectSeq(metadata, LAMBDA e : /\ e.value.type = "string"
                                             /\ Len(e.value.str) >= 10
                                             /\ Len(Trim(e.value.str)) > 0)
  IN  IF Len(hits) = 0 THEN Undefined ELSE hits[1].value

\* line 79: the first value that is a string with something else than white space
firstTextValue(metadata) ==
  LET hits == SelectSeq(metadata, LAMBDA e : /\ e.value.type = "string"
                                             /\ Truthy(e.value)
                                             /\ Len(Trim(e.value.str)) > 0)
  IN  IF Len(hits) = 0 THEN Undefined ELSE hits[1].value

\* lines 70-79: metadata.chunk || metadata.content || ... || (find) || ''
RECURSIVE OrFields(_, _)
OrFields(metadata, k) ==
  IF k > Len(TEXT_FIELDS) THEN Or(firstTextValue(metadata), Str(<<>>))
  ELSE Or(Get(metadata, TEXT_FIELDS[k]), OrFields(metadata, k + 1))

\* lines 67-100: the text of one qualifying match
extractText(metadata) ==
  LET found == OrFields(metadata, 1)
      contentFields ==
        SelectSeq(metadata, LAMBDA e : e.value.type = "string" /\ Len(e.value.str) > 10)
  IN  IF ~Truthy(found) /\ Len(metadata) > 0 /\ Len(contentFields) > 0
      THEN contentFields[1].value
      ELSE found

\* line 101: text.trim() of a value that is no string throws a TypeError
trimThrows(t) == Truthy(t) /\ t.type # "string"

\* line 101: text && text.trim().length > 0
hasText(t) == Truthy(t) /\ Len(Trim(t.str)) > 0

\* line 111 without the truncation
assembleUncut(texts, max) == Join(texts, << "\n" >>)

\* line 111
assemble(texts, max) == Substring(Join(texts, << "\n" >>), 0, max)

(***************************************************************************)
(* The messages of the errors thrown during retrieval.  The retry wrapper   *)
(* of the chat handler classifies an error by its message, so messages are  *)
(* kept as the strings the code builds.                                     *)
(***************************************************************************)
\* part_001 line 137
KEY_NOT_SET ==
  << "O", "P", "E", "N", "A", "I", "_", "A", "P", "I", "_", "K", "E", "Y", " ", "e", "n",
     "v", "i", "r", "o", "n", "m", "e", "n", "t", " ", "v", "a", "r", "i", "a", "b", "l",
     "e", " ", "n", "o", "t", " ", "s", "e", "t" >>

\* part_001 line 141
INPUT_EMPTY ==
  << "I", "n", "p", "u", "t", " ", "t", "e", "x", "t", " ", "i", "s", " ", "e", "m", "p",
     "t", "y" >>

\* part_001 line 154
NO_EMBEDDING ==
  << "F", "a", "i", "l", "e", "d", " ", "t", "o", " ", "e", "x", "t", "r", "a", "c", "t",
     " ", "e", "m", "b", "e", "d", "d", "i", "n", "g", " ", "f", "r", "o", "m", " ", "O",
     "p", "e", "n", "A", "I", " ", "r", "e", "s", "p", "o", "n", "s", "e" >>

\* part_001 line 174: the prefix of what getEmbeddings throws
EMBEDDING_ERROR ==
  << "E", "r", "r", "o", "r", " ", "c", "a", "l", "l", "i", "n", "g", " ", "O", "p", "e",
     "n", "A", "I", " ", "e", "m", "b", "e", "d", "d", "i", "n", "g", " ", "A", "P", "I",
     ":", " " >>

\* part_002 line 39
INDEX_NOT_SET ==
  << "P", "I", "N", "E", "C", "O", "N", "E", "_", "I", "N", "D", "E", "X", " ", "e", "n",
     "v", "i", "r", "o", "n", "m", "e", "n", "t", " ", "v", "a", "r", "i", "a", "b", "l",
     "e", " ", "n", "o", "t", " ", "s", "e", "t" >>

\* part_002 line 18
CLIENT_KEY_NOT_SET ==
  << "P", "I", "N", "E", "C", "O", "N", "E", "_", "A", "P", "I", "_", "K", "E", "Y", " ",
     "e", "n", "v", "i", "r", "o", "n", "m", "e", "n", "t", " ", "v", "a", "r", "i", "a",
     "b", "l", "e", " ", "n", "o", "t", " ", "s", "e", "t" >>

\* part_002 line 87
QUERY_TIMEOUT ==
  << "P", "i", "n", "e", "c", "o", "n", "e", " ", "q", "u", "e", "r", "y", " ", "t", "i",
     "m", "e", "o", "u", "t", " ", "a", "f", "t", "e", "r", " ", "1", "0", " ", "s", "e",
     "c", "o", "n", "d", "s" >>

\* part_002 line 127: the prefix of what the catch of line 117 throws
QUERY_ERROR ==
  << "E", "r", "r", "o", "r", " ", "q", "u", "e", "r", "y", "i", "n", "g", " ", "e", "m",
     "b", "e", "d", "d", "i", "n", "g", "s", ":", " " >>

\* part_001 line 101: the TypeError of a trim call on a value that is no string
TRIM_TYPE_ERROR ==
  << "t", "e", "x", "t", ".", "t", "r", "i", "m", " ", "i", "s", " ", "n", "o", "t", " ",
     "a", " ", "f", "u", "n", "c", "t", "i", "o", "n" >>

\* messages of the errors the provider and the index may raise
MSG_CONNECTION ==
  << "C", "o", "n", "n", "e", "c", "t", "i", "o", "n", " ", "e", "r", "r", "o", "r", "." >>

\* a failed fetch
MSG_NETWORK ==
  << "n", "e", "t", "w", "o", "r", "k", " ", "e", "r", "r", "o", "r" >>

\* status 401
MSG_UNAUTHORIZED ==
  << "4", "0", "1", " ", "I", "n", "c", "o", "r", "r", "e", "c", "t", " ", "A", "P", "I",
     " ", "k", "e", "y", " ", "p", "r", "o", "v", "i", "d", "e", "d" >>

\* status 429
MSG_RATE_LIMIT ==
  << "4", "2", "9", " ", "R", "a", "t", "e", " ", "l", "i", "m", "i", "t", " ", "r", "e",
     "a", "c", "h", "e", "d" >>

\* status 500
MSG_SERVER ==
  << "5", "0", "0", " ", "I", "n", "t", "e", "r", "n", "a", "l", " ", "s", "e", "r", "v",
     "e", "r", " ", "e", "r", "r", "o", "r" >>

\* the index cannot be reached
MSG_UNREACHABLE ==
  << "R", "e", "q", "u", "e", "s", "t", " ", "f", "a", "i", "l", "e", "d", " ", "t", "o",
     " ", "r", "e", "a", "c", "h", " ", "P", "i", "n", "e", "c", "o", "n", "e" >>

\* the index does not exist
MSG_NOT_FOUND ==
  << "I", "n", "d", "e", "x", " ", "n", "o", "t", " ", "f", "o", "u", "n", "d" >>

\* route.ts line 76
NEEDLE_REACH ==
  << "f", "a", "i", "l", "e", "d", " ", "t", "o", " ", "r", "e", "a", "c", "h", " ", "P",
     "i", "n", "e", "c", "o", "n", "e" >>

\* route.ts line 77
NEEDLE_CONNECTION ==
  << "C", "o", "n", "n", "e", "c", "t", "i", "o", "n", "E", "r", "r", "o", "r" >>

\* route.ts line 78
NEEDLE_NETWORK ==
  << "n", "e", "t", "w", "o", "r", "k" >>

\* route.ts line 79
NEEDLE_TIMEOUT ==
  << "t", "i", "m", "e", "o", "u", "t" >>

\* String.prototype.includes
Includes(s, needle) == \E i \in 1..(Len(s) - Len(needle) + 1) : OccursAt(s, needle, i)

\* part_001 line 174
embeddingError(msg) == EMBEDDING_ERROR \o msg

\* part_002 line 127
queryError(msg) == QUERY_ERROR \o msg

\* route.ts line 66: process.env.PINECONE_NAMESPACE || '', the namespace the
\* handler passes to getContext; an unset value is the empty string here
handlerNamespace(value) == Or(Str(value), Str(<<>>))

\* part_001 line 14: the default of the namespace parameter
defaultNamespace(ns) == IF ns.type = "undefined" THEN Str(<<>>) ELSE ns

\* the default namespace whatever the argument
namespaceOfDefault(ns) == <<>>

\* part_002 line 73: namespace || ''
namespaceOf(ns) == Or(ns, Str(<<>>)).str

\* a settled Promise.race keeps its outcome whatever settles afterwards
raceUnsettledAlways(call, current, pc) == TRUE

\* part_002 lines 79-89: the race of the call given is still open when that
\* call is the one running and it still awaits the race
raceUnsettled(call, current, pc) == call = current /\ pc = "query"

(***************************************************************************)
(* The calls of getContext that are checked.                                *)
(***************************************************************************)
MaxMatches == 2
MaxChars == 4

\* an unset setting and an empty one read alike (part_001 line 136,
\* part_002 lines 17 and 37, route.ts lines 66 and 68)
AllSet ==
  [OPENAI_API_KEY |-> << "s", "k" >>, PINECONE_API_KEY |-> << "p", "c" >>,
   PINECONE_INDEX |-> << "i", "x" >>, PINECONE_NAMESPACE |-> << "n", "s" >>]

ContextEnvs ==
  { AllSet,
    [AllSet EXCEPT !.OPENAI_API_KEY = <<>>],
    [AllSet EXCEPT !.OPENAI_API_KEY = << " " >>],
    [AllSet EXCEPT !.PINECONE_API_KEY = <<>>],
    [AllSet EXCEPT !.PINECONE_INDEX = <<>>] }

Messages == { <<>>, << " ", "\n" >>, << "h", "i", "\n" >> }
MinScores == {-2, 0, 1}

\* the namespace argument: left out, or a name
Namespaces == { Undefined, Str(<< "n", "s" >>) }

\* the maxTokens argument
MaxTokens == { -1, 0, MaxChars - 1, MaxChars }

\* the errors a failed embeddings.create may carry, NoStatus for a failure of
\* the connection
CreateErrors ==
  { [status |-> NoStatus, message |-> MSG_CONNECTION],
    [status |-> NoStatus, message |-> MSG_NETWORK],
    [status |-> 401, message |-> MSG_UNAUTHORIZED],
    [status |-> 429, message |-> MSG_RATE_LIMIT],
    [status |-> 500, message |-> MSG_SERVER] }

\* the lengths of the vector a settled embeddings.create may carry, 0 for a
\* response without one
CreateLengths == {0, 768, 1536}

\* the messages a rejected index query may carry
QueryErrors == { MSG_UNREACHABLE, MSG_NOT_FOUND }

RawMatch(id, score, metadata, fields) ==
  [id |-> id, score |-> score, metadata |-> metadata, fields |-> fields]

\* the matches a query response is made of
MatchPool ==
  { RawMatch("m1", Score(1), Present(<< Entry("text", Str(<< "a", "b" >>)) >>), Absent),
    RawMatch("m2", Score(0),
             Present(<< Entry("source", Str(<< "s" >>)), Entry("text", Str(<< "c", "d" >>)) >>),
             Absent),
    RawMatch("m3", NoScore, Present(<< Entry("pageContent", Str(<< "e", "f" >>)) >>), Absent),
    RawMatch("m4", Score(-1), Absent, Present(<< Entry("source", Str(<< "g", "h" >>)) >>)),
    RawMatch("m5", Score(1),
             Present(<< Entry("chunk", Str(<< " ", " " >>)), Entry("text", Str(<< "i", "j" >>)) >>),
             Absent),
    RawMatch("m6", Score(2), Absent, Absent),
    RawMatch("m7", Score(1), Present(<< Entry("value", Num(7)) >>), Absent),
    RawMatch("m8", Score(2),
             Present(<< Entry("chunk_index", Num(3)), Entry("note", Str(Repeat(" ", 11))) >>),
             Absent),
    RawMatch("m9", Score(2), Present(<< Entry("text", Str(<< "k", "\n", "l" >>)) >>), Absent) }

\* what settles in a Promise.race: the query response, its rejection or the
\* timer
RaceEvent(event, matchList, msg) == [event |-> event, matches |-> matchList, message |-> msg]

ContextInit ==
  /\ ChunkIdle
  /\ IngestIdle
  /\ HandlerIdle
  /\ gpc = "idle"
  /\ genv \in ContextEnvs
  /\ RetrievalFresh

\* lines 165-175: the catch of the getEmbeddings call with parameter count, on
\* an error of the status, kind and message given; what it throws getContext
\* throws on (lines 117-123)
EmbeddingCatch(count, status, kind, msg) ==
  IF ShouldRetry(count, status)
  THEN gpc' = "wait" /\ gerror' = "none" /\ gmessage' = <<>>
  ELSE gpc' = "failed" /\ gerror' = kind /\ gmessage' = embeddingError(msg)

\* lines 135-148: a getEmbeddings call with parameter count, up to its await;
\* calls are the requests made before it
EnterGetEmbeddings(input, count, calls) ==
  IF Len(genv.OPENAI_API_KEY) = 0 \/ Trim(genv.OPENAI_API_KEY) = <<>>
  THEN EmbeddingCatch(count, NoStatus, "key", KEY_NOT_SET) /\ embedCalls' = calls
  ELSE IF Len(input) = 0 \/ Len(Trim(input)) = 0
  THEN EmbeddingCatch(count, NoStatus, "input", INPUT_EMPTY) /\ embedCalls' = calls
  ELSE /\ embedCalls' = Append(calls, embeddingInput(input))
       /\ gpc' = "create"
       /\ gerror' = "none"
       /\ gmessage' = <<>>

\* a call getContext(m, ns, max, min, only): lines 19-21 and getEmbeddings up
\* to its await.  The variables of the call now running start afresh.
CallGetContext(m, ns, max, min, only) ==
  /\ invocation' = invocation + 1
  /\ message' = m
  /\ namespace' = defaultNamespace(ns).str
  /\ maxTokens' = max
  /\ minScore' = min
  /\ getOnlyText' = only
  /\ retryCount' = 0
  /\ embedOutcomes' = <<>>
  /\ waits' = <<>>
  /\ embedding' = 0
  /\ queries' = <<>>
  /\ matches' = <<>>
  /\ qualifyingDocs' = <<>>
  /\ docs' = <<>>
  /\ result' = <<>>
  /\ raceLog' = <<>>
  /\ EnterGetEmbeddings(m, 0, <<>>)
  /\ UNCHANGED << genv, pineconeClient, queryPending, timerPending >>

\* getContext is called
GetContextCall ==
  /\ gpc = "idle"
  /\ \E m \in Messages, ns \in Namespaces, max \in MaxTokens, min \in MinScores,
        only \in BOOLEAN :
         CallGetContext(m, ns, max, min, only)
  /\ UNCHANGED << chunkVars, ingestVars, handlerVars >>

\* embeddings.create rejects: lines 165-175
CreateFails ==
  /\ gpc = "create"
  /\ \E e \in CreateErrors :
         /\ embedOutcomes' = Append(embedOutcomes, [ok |-> FALSE, status |-> e.status])
         /\ EmbeddingCatch(retryCount, e.status, "provider", e.message)
  /\ UNCHANGED << genv, pineconeClient, invocation, queryPending, timerPending, callArgs,
                  retryCount, embedCalls, waits, embedding, queries, matches,
                  qualifyingDocs, docs, result, raceLog >>
  /\ UNCHANGED << chunkVars, ingestVars, handlerVars >>

\* the delay of line 169 is over: line 170, the second getEmbeddings call up
\* to its await
RetryTimer ==
  /\ gpc = "wait"
  /\ waits' = Append(waits, RETRY_DELAY_MS)
  /\ retryCount' = retryCount + 1
  /\ EnterGetEmbeddings(message, retryCount + 1, embedCalls)
  /\ UNCHANGED << genv, pineconeClient, invocation, queryPending, timerPending, callArgs,
                  embedOutcomes, embedding, queries, matches, qualifyingDocs, docs, result,
                  raceLog >>
  /\ UNCHANGED << chunkVars, ingestVars, handlerVars >>

\* embeddings.create settles: lines 151-164, then getContext lines 22-28 and
\* getMatchesFromEmbeddings (part_002, lines 37-89) up to its await
CreateReturns ==
  /\ gpc = "create"
  /\ \E length \in CreateLengths :
         /\ embedOutcomes' = Append(embedOutcomes, [ok |-> TRUE, status |-> NoStatus])
         /\ IF length = 0
            THEN /\ EmbeddingCatch(retryCount, NoStatus, "embedding", NO_EMBEDDING)
                 /\ UNCHANGED << embedding, queries, pineconeClient, queryPending,
                                 timerPending >>
            ELSE /\ embedding' = length
                 /\ IF genv.PINECONE_INDEX = <<>>
                    THEN /\ gpc' = "failed"
                         /\ gerror' = "index"
                         /\ gmessage' = INDEX_NOT_SET
                         /\ UNCHANGED << queries, pineconeClient, queryPending, timerPending >>
                    ELSE IF ~pineconeClient /\ genv.PINECONE_API_KEY = <<>>
                    THEN /\ gpc' = "failed"
                         /\ gerror' = "client"
                         /\ gmessage' = CLIENT_KEY_NOT_SET
                         /\ UNCHANGED << queries, pineconeClient, queryPending, timerPending >>
                    ELSE /\ pineconeClient' = TRUE
                         /\ gpc' = "query"
                         /\ queries' = Append(queries, [vector |-> length, topK |-> TOP_K,
                                                        namespace |-> namespaceOf(Str(namespace))])
                         /\ queryPending' = queryPending \cup {invocation}
                         /\ timerPending' = timerPending \cup {invocation}
                         /\ UNCHANGED << gerror, gmessage >>
  /\ UNCHANGED << genv, invocation, callArgs, retryCount, embedCalls, waits, matches,
                  qualifyingDocs, docs, result, raceLog >>
  /\ UNCHANGED << chunkVars, ingestVars, handlerVars >>

\* what the call now running keeps of an event of its race: the first event
\* with what it carries, the later ones by their kind
Logged(call, event, matchList, msg) ==
  IF call # invocation THEN raceLog
  ELSE IF raceLog = <<>> THEN << RaceEvent(event, matchList, msg) >>
  ELSE Append(raceLog, RaceEvent(event, <<>>, <<>>))

\* the query of a call rejects.  While the race of that call is open, the
\* catch of part_002 lines 117-128 runs and getContext throws on (part_001
\* lines 117-123); afterwards nobody awaits the rejection.
QueryFails ==
  \E call \in queryPending :
    /\ queryPending' = queryPending \ {call}
    /\ IF raceUnsettled(call, invocation, gpc)
       THEN \E msg \in QueryErrors :
              /\ raceLog' = Logged(call, "rejection", <<>>, msg)
              /\ gpc' = "failed"
              /\ gerror' = "query"
              /\ gmessage' = queryError(msg)
       ELSE /\ raceLog' = Logged(call, "rejection", <<>>, <<>>)
            /\ UNCHANGED << gpc, gerror, gmessage >>
    /\ UNCHANGED << genv, pineconeClient, invocation, timerPending, callArgs, retryCount,
                    embedCalls, embedOutcomes, waits, embedding, queries, matches,
                    qualifyingDocs, docs, result >>
    /\ UNCHANGED << chunkVars, ingestVars, handlerVars >>

\* the timer of part_002 line 87 of a call fires.  While the race of that
\* call is open, the race rejects with the timeout and the catch of lines
\* 117-128 runs; afterwards the rejection is lost.
TimerFires ==
  \E call \in timerPending :
    /\ timerPending' = timerPending \ {call}
    /\ raceLog' = Logged(call, "timer", <<>>, QUERY_TIMEOUT)
    /\ IF raceUnsettled(call, invocation, gpc)
       THEN /\ gpc' = "failed"
            /\ gerror' = "timeout"
            /\ gmessage' = queryError(QUERY_TIMEOUT)
       ELSE UNCHANGED << gpc, gerror, gmessage >>
    /\ UNCHANGED << genv, pineconeClient, invocation, queryPending, callArgs, retryCount,
                    embedCalls, embedOutcomes, waits, embedding, queries, matches,
                    qualifyingDocs, docs, result >>
    /\ UNCHANGED << chunkVars, ingestVars, handlerVars >>

\* the query of a call settles with one of the answers given.  While the race
\* of that call is open: part_002 lines 93-116, then part_001 lines 29-116;
\* afterwards the response is dropped.
QuerySettles(answers) ==
  \E call \in queryPending :
    /\ queryPending' = queryPending \ {call}
    /\ IF ~raceUnsettled(call, invocation, gpc)
       THEN /\ raceLog' = Logged(call, "response", <<>>, <<>>)
            /\ UNCHANGED << gpc, matches, qualifyingDocs, docs, result, gerror, gmessage >>
       ELSE \E answer \in answers :
            \E received \in { [k \in 1..Len(answer) |-> normalizeMatch(answer[k])] } :
            \E qualifying \in { SelectSeq(received, LAMBDA m : qualifies(m, minScore)) } :
            \E texts \in { [k \in 1..Len(qualifying) |->
                              extractText(qualifying[k].metadata)] } :
              /\ raceLog' = Logged(call, "response", received, <<>>)
              /\ matches' = received
              /\ qualifyingDocs' = qualifying
              /\ IF ~getOnlyText
                 THEN gpc' = "done" /\ UNCHANGED << docs, result, gerror, gmessage >>
                 ELSE IF \E k \in 1..Len(texts) : trimThrows(texts[k])
                 THEN /\ gpc' = "failed"
                      /\ gerror' = "type"
                      /\ gmessage' = TRIM_TYPE_ERROR
                      /\ UNCHANGED << docs, result >>
                 ELSE /\ docs' = [k \in 1..Len(SelectSeq(texts, hasText)) |->
                                    SelectSeq(texts, hasText)[k].str]
                      /\ result' = assemble(docs', maxTokens)
                      /\ gpc' = "done"
                      /\ UNCHANGED << gerror, gmessage >>
    /\ UNCHANGED << genv, pineconeClient, invocation, timerPending, callArgs, retryCount,
                    embedCalls, embedOutcomes, waits, embedding, queries >>
    /\ UNCHANGED << chunkVars, ingestVars, handlerVars >>

\* the responses a query of getContext may get
Answers == SeqsUpTo(MatchPool, MaxMatches)

QueryReturns == QuerySettles(Answers)

ContextNext ==
  \/ GetContextCall
  \/ CreateFails
  \/ RetryTimer
  \/ CreateReturns
  \/ QueryFails
  \/ TimerFires
  \/ QueryReturns

SpecContext == ContextInit /\ [][ContextNext]_vars

(***************************************************************************)
(* The chat handler: POST (src/app/api/chat/route.ts, lines 10-317) with     *)
(* getContextWithRetry (lines 70-93), up to the point where the completion  *)
(* request is made.                                                         *)
(***************************************************************************)
HANDLER_MAX_TOKENS == 6000
HANDLER_MIN_SCORE == 0
BASE_DELAY_MS == 1000
MAX_DELAY_MS == 4000
CONNECTION_RETRIES == 3
OTHER_RETRIES == 1

\* lines 76-79
isConnectionError(msg) ==
  \/ Includes(msg, NEEDLE_REACH)
  \/ Includes(msg, NEEDLE_CONNECTION)
  \/ Includes(msg, NEEDLE_NETWORK)
  \/ Includes(msg, NEEDLE_TIMEOUT)

\* every failure is given the retries of a connection error
maxRetriesConnection(msg) == CONNECTION_RETRIES

\* line 82
maxRetries(msg) == IF isConnectionError(msg) THEN CONNECTION_RETRIES ELSE OTHER_RETRIES

\* line 86
backoffDelay(count) == Min(BASE_DELAY_MS * 2^count, MAX_DELAY_MS)

\* line 74: typeof contextResult === 'string' ? contextResult : ''
wrapperReturn(only, string) == IF only THEN string ELSE <<>>

\* the error getContextWithRetry threw is thrown on to the handler
handleRetrievalFailureRethrow(msg) == [context |-> <<>>, rethrown |-> TRUE]

\* lines 96-104: the catch around getContextWithRetry
handleRetrievalFailure(msg) == [context |-> <<>>, rethrown |-> FALSE]

\* hasContext that takes every context as one
hasContextAlways(c) == TRUE

\* line 107
hasContext(c) == Len(Trim(c)) > 0

COMPLETION_RETRIES == 2
EMPTY_REPLY_DELAY_MS == 1000
RATE_LIMIT_DELAY_MS == 2000
SERVER_ERROR_DELAY_MS == 1000

\* what a chat-completion request may give: a reply with the content given, or
\* a failure with the status given (0: none, as for a connection failure)
CompletionOutcomes ==
  { [kind |-> "reply", content |-> << "o", "k", "\n" >>, status |-> 0],
    [kind |-> "reply", content |-> << " " >>, status |-> 0],
    [kind |-> "error", content |-> <<>>, status |-> 401],
    [kind |-> "error", content |-> <<>>, status |-> 429],
    [kind |-> "error", content |-> <<>>, status |-> 500],
    [kind |-> "error", content |-> <<>>, status |-> 0] }

\* line 225: completion.choices[0]?.message?.content?.trim() || ''
completionText(outcome) == Trim(outcome.content)

\* completionRetries with the 401 test of line 259 left out and every failure
\* taken as retryable
completionRetriesAnyError(outcome, count) ==
  IF outcome.kind = "reply"
  THEN completionText(outcome) = <<>> /\ count < COMPLETION_RETRIES
  ELSE count < COMPLETION_RETRIES

\* lines 234-238 and 259-277: whether getOpenAIResponse(count) calls
\* getOpenAIResponse(count + 1) after the outcome given
completionRetries(outcome, count) ==
  IF outcome.kind = "reply"
  THEN completionText(outcome) = <<>> /\ count < COMPLETION_RETRIES
  ELSE /\ outcome.status # 401
       /\ \/ outcome.status = 429 /\ count < COMPLETION_RETRIES
          \/ outcome.status # 0 /\ outcome.status >= 500 /\ count < COMPLETION_RETRIES

\* lines 237, 266 and 274: the wait before the next call
completionDelay(outcome) ==
  IF outcome.kind = "reply" THEN EMPTY_REPLY_DELAY_MS
  ELSE IF outcome.status = 429 THEN RATE_LIMIT_DELAY_MS
  ELSE SERVER_ERROR_DELAY_MS

\* lines 241-247 and 283-296: the message of the response when the outcome
\* given is not followed by another call: the reply, the fallback of line 244
\* for an empty reply, the fallback of line 293 for a failure
completionAnswer(outcome) ==
  IF outcome.kind = "error" THEN [kind |-> "difficulties", text |-> <<>>]
  ELSE IF completionText(outcome) = <<>> THEN [kind |-> "rephrase", text |-> <<>>]
  ELSE [kind |-> "reply", text |-> completionText(outcome)]

\* a request body: empty, no JSON, or a JSON object whose messages are given
\* by their contents
Requests ==
  { [body |-> "empty", messages |-> <<>>],
    [body |-> "invalid", messages |-> <<>>],
    [body |-> "json", messages |-> <<>>],
    [body |-> "json", messages |-> << << "h", "i" >>, <<>> >>],
    [body |-> "json", messages |-> << << " " >> >>],
    [body |-> "json", messages |-> << << "y", "o" >>, << "h", "i", "\n" >> >>] }

\* the responses a query made for the handler may get
ChatAnswers ==
  { <<>> } \cup { << m >> : m \in {p \in MatchPool : p.id \in {"m1", "m4", "m7"}} }

ChatEnvs == ContextEnvs \cup { [AllSet EXCEPT !.PINECONE_NAMESPACE = <<>>] }

ChatInit ==
  /\ ChunkIdle
  /\ IngestIdle
  /\ gpc = "off"
  /\ genv \in ChatEnvs
  /\ RetrievalFresh
  /\ hpc = "start"
  /\ request \in Requests
  /\ hRetryCount = 0
  /\ hwaits = <<>>
  /\ hfailures = <<>>
  /\ wrapperOutcome = "none"
  /\ wrapperError = <<>>
  /\ context = <<>>
  /\ response = [status |-> 0, error |-> "none"]
  /\ CompletionFresh

\* NextResponse.json({error}, {status})
Respond(status, error) ==
  /\ hpc' = "responded"
  /\ response' = [status |-> status, error |-> error]

\* lines 107-215 for the context given: without context the handler answers
\* 400; with context it checks the key again (lines 200-202, a throw that
\* line 298 answers with 500) and sends the first completion request
AfterRetrieval(c) ==
  /\ context' = c
  /\ IF ~hasContext(c)
     THEN Respond(400, "no context") /\ UNCHANGED completionVars
     ELSE IF Len(genv.OPENAI_API_KEY) = 0 \/ Trim(genv.OPENAI_API_KEY) = <<>>
     THEN Respond(500, "failed") /\ UNCHANGED completionVars
     ELSE /\ hpc' = "completion"
          /\ completionCalls' = completionCalls + 1
          /\ UNCHANGED << response, cRetryCount, completionLog, cwaits, responseMessage >>

\* line 73: the getContext call of getContextWithRetry
HandlerCall ==
  CallGetContext(request.messages[Len(request.messages)],
                 handlerNamespace(genv.PINECONE_NAMESPACE),
                 HANDLER_MAX_TOKENS, HANDLER_MIN_SCORE, TRUE)

\* a request arrives: lines 12-73, up to the first getContext call
ReceiveRequest ==
  /\ hpc = "start"
  /\ IF request.body = "empty"
     THEN Respond(400, "empty body") /\ UNCHANGED << context, retrievalVars, completionVars >>
     ELSE IF request.body = "invalid"
     THEN Respond(400, "invalid json") /\ UNCHANGED << context, retrievalVars, completionVars >>
     ELSE IF Len(request.messages) = 0
     THEN Respond(400, "no messages") /\ UNCHANGED << context, retrievalVars, completionVars >>
     ELSE IF Len(request.messages[Len(request.messages)]) = 0
     THEN Respond(400, "no content") /\ UNCHANGED << context, retrievalVars, completionVars >>
     ELSE IF Len(genv.OPENAI_API_KEY) = 0 \/ Trim(genv.OPENAI_API_KEY) = <<>>
     THEN Respond(500, "key") /\ UNCHANGED << context, retrievalVars, completionVars >>
     ELSE IF Len(genv.PINECONE_INDEX) = 0
     THEN AfterRetrieval(<<>>) /\ UNCHANGED retrievalVars
     ELSE /\ HandlerCall
          /\ hpc' = "context"
          /\ UNCHANGED << context, response, completionVars >>
  /\ UNCHANGED << request, hRetryCount, hwaits, hfailures, wrapperOutcome, wrapperError >>
  /\ UNCHANGED << chunkVars, ingestVars >>

\* the getContext call of getContextWithRetry has ended: line 74 when it
\* returned, lines 75-91 when it threw; when the wrapper ends, lines 95-131
ContextSettles ==
  /\ hpc = "context"
  /\ gpc \in {"done", "failed"}
  /\ IF gpc = "done"
     THEN /\ wrapperOutcome' = "string"
          /\ AfterRetrieval(wrapperReturn(getOnlyText, result))
          /\ UNCHANGED << hfailures, wrapperError >>
     ELSE /\ hfailures' = Append(hfailures, gmessage)
          /\ IF hRetryCount < maxRetries(gmessage)
             THEN /\ hpc' = "backoff"
                  /\ UNCHANGED << wrapperOutcome, wrapperError, context, response,
                                  completionVars >>
             ELSE /\ wrapperOutcome' = "error"
                  /\ wrapperError' = gmessage
                  /\ IF handleRetrievalFailure(gmessage).rethrown
                     THEN Respond(500, "failed") /\ UNCHANGED << context, completionVars >>
                     ELSE AfterRetrieval(handleRetrievalFailure(gmessage).context)
  /\ UNCHANGED << request, hRetryCount, hwaits >>
  /\ UNCHANGED << chunkVars, ingestVars, retrievalVars >>

\* the query of a getContext call of the handler settles
ChatQueryReturns == QuerySettles(ChatAnswers)

\* the delay of line 88 is over: line 89, the next getContextWithRetry call up
\* to its getContext call
BackoffElapses ==
  /\ hpc = "backoff"
  /\ hwaits' = Append(hwaits, backoffDelay(hRetryCount))
  /\ hRetryCount' = hRetryCount + 1
  /\ HandlerCall
  /\ hpc' = "context"
  /\ UNCHANGED << request, hfailures, wrapperOutcome, wrapperError, context, response,
                  completionVars >>
  /\ UNCHANGED << chunkVars, ingestVars >>

\* lines 215-296: the completion request that is out settles; getOpenAIResponse
\* then waits and sends the next request, or the handler answers
CompletionSettles ==
  /\ hpc = "completion"
  /\ \E outcome \in CompletionOutcomes :
       /\ completionLog' = Append(completionLog, outcome)
       /\ IF completionRetries(outcome, cRetryCount)
          THEN /\ cwaits' = Append(cwaits, completionDelay(outcome))
               /\ cRetryCount' = cRetryCount + 1
               /\ completionCalls' = completionCalls + 1
               /\ UNCHANGED << hpc, response, responseMessage >>
          ELSE /\ Respond(200, "none")
               /\ responseMessage' = completionAnswer(outcome)
               /\ UNCHANGED << cwaits, cRetryCount, completionCalls >>
  /\ UNCHANGED << request, hRetryCount, hwaits, hfailures, wrapperOutcome, wrapperError,
                  context >>
  /\ UNCHANGED << chunkVars, ingestVars, retrievalVars >>

ChatNext ==
  \/ ReceiveRequest
  \/ ContextSettles
  \/ BackoffElapses
  \/ CompletionSettles
  \/ CreateFails
  \/ RetryTimer
  \/ CreateReturns
  \/ QueryFails
  \/ TimerFires
  \/ ChatQueryReturns

SpecChat == ChatInit /\ [][ChatNext]_vars

(***************************************************************************)
(* Claims about getContext and getEmbeddings (under SpecContext).           *)
(***************************************************************************)
\* the matches of the query response have been filtered
Filtered == gpc = "done" \/ (gpc = "failed" /\ gerror = "type")

\* the texts of a list of matches that line 101 keeps, in order
C4_Extracted(ms) ==
  LET texts == [k \in 1..Len(ms) |-> extractText(ms[k].metadata)]
      kept == SelectSeq(texts, hasText)
  IN  [k \in 1..Len(kept) |-> kept[k].str]

\* the texts with a newline between one and the next
RECURSIVE C4_Joined(_)
C4_Joined(texts) ==
  IF Len(texts) = 0 THEN <<>>
  ELSE IF Len(texts) = 1 THEN texts[1]
  ELSE C4_Joined(SubSeq(texts, 1, Len(texts) - 1)) \o << "\n" >> \o texts[Len(texts)]

\* C4: the string getContext returns in text mode, maxTokens >= 0, is no
\* longer than maxTokens and is the first maxTokens characters (all of them
\* if there are fewer) of the extracted texts of the qualifying matches, in
\* the order received, joined by newlines.
C4_Assembled ==
  (gpc = "done" /\ getOnlyText /\ maxTokens >= 0) =>
     LET joined == C4_Joined(C4_Extracted(qualifyingDocs))
     IN  /\ Len(result) <= maxTokens
         /\ Len(result) = Min(maxTokens, Len(joined))
         /\ \A k \in 1..Len(result) : result[k] = joined[k]
         /\ \E pick \in [1..Len(qualifyingDocs) -> 1..Len(matches)] :
               /\ \A k \in 1..Len(qualifyingDocs) : qualifyingDocs[k] = matches[pick[k]]
               /\ \A j, k \in 1..Len(qualifyingDocs) : j < k => pick[j] < pick[k]

\* C4 witness: two extracted texts, and the cut falls after the newline
C4_Witness ==
  /\ gpc = "done"
  /\ getOnlyText
  /\ Len(docs) = 2
  /\ maxTokens > 0
  /\ Len(result) = maxTokens
  /\ Len(C4_Joined(C4_Extracted(qualifyingDocs))) > maxTokens
  /\ \E k \in 1..Len(result) : result[k] = "\n" /\ k < Len(result) /\ k > Len(docs[1])

\* C5 as stated: the matches that survive the score filter are exactly those
\* with a score, strictly greater than minScore, in the order received.
C5_Original ==
  Filtered =>
     qualifyingDocs = SelectSeq(matches, LAMBDA m : m.score.defined /\ m.score.value > minScore)

\* C7: getEmbeddings calls the provider at most twice; a second call is made
\* only after the first failed with status 429 or >= 500 and after one wait of
\* RETRY_DELAY_MS, and then it is made; without the key or with an empty input
\* there is no call; no failure of the second call is followed by a third.
C7_Transient(outcome) == ~outcome.ok /\ (outcome.status = 429 \/ outcome.status >= 500)

C7_RetryOnce ==
  /\ Len(embedCalls) <= 2
  /\ Len(embedOutcomes) <= Len(embedCalls)
  /\ \A k \in 1..Len(waits) : waits[k] = 1000
  /\ Len(embedCalls) = 2 =>
        /\ Len(embedOutcomes) >= 1
        /\ C7_Transient(embedOutcomes[1])
        /\ Len(waits) = 1
  /\ (Len(embedCalls) = 1 /\ Len(embedOutcomes) = 1 /\ gpc # "wait") =>
        ~C7_Transient(embedOutcomes[1])
  /\ (gpc # "idle" /\ (Trim(genv.OPENAI_API_KEY) = <<>> \/ Trim(message) = <<>>)) =>
        /\ embedCalls = <<>>
        /\ gpc = "failed"
  /\ (Len(embedOutcomes) = 2 /\ ~embedOutcomes[2].ok) =>
        /\ gpc = "failed"
        /\ gerror = "provider"
  /\ gpc = "wait" => (Len(embedCalls) = 1 /\ waits = <<>>)

\* C7 witness: the first request failed with a 5xx, the second with a 429,
\* and the call has failed
C7_Witness ==
  /\ gpc = "failed"
  /\ Len(embedCalls) = 2
  /\ Len(embedOutcomes) = 2
  /\ embedOutcomes[1] = [ok |-> FALSE, status |-> 500]
  /\ embedOutcomes[2] = [ok |-> FALSE, status |-> 429]
  /\ waits = << 1000 >>

\* a setting of the retrieval is absent
C11_Absent ==
  \/ genv.OPENAI_API_KEY = <<>>
  \/ genv.PINECONE_API_KEY = <<>>
  \/ genv.PINECONE_INDEX = <<>>

\* C11 as stated: in processFiles and in getContext, when the embedding key,
\* the index key or the index identifier is absent, the operation fails with
\* a configuration error and no network request (embedding, query or upsert)
\* has been issued before that failure.  The getContext calls looked at are
\* those with a message that is not blank.
C11_Original ==
  /\ (ipc \notin {"off", "start"}
        /\ ~(env.OPENAI_API_KEY /\ env.PINECONE_API_KEY /\ env.PINECONE_INDEX)) =>
        /\ ipc = "failed"
        /\ ierror.kind = "config"
        /\ requests = <<>>
  /\ (gpc \notin {"off", "idle"} /\ Trim(message) # <<>> /\ C11_Absent) =>
        /\ embedCalls = <<>>
        /\ queries = <<>>
        /\ gpc = "failed"
        /\ gerror \in {"key", "index", "client"}

\* C13: the outcome of getMatchesFromEmbeddings is decided by what settles
\* first in the race of the query and the timer: nothing has settled while
\* the call awaits the race; when the response came first the call has
\* returned the matches of that response; when the timer came first the call
\* has failed with the timeout error; when the rejection came first it has
\* failed with the error of the query; and whatever settles after the first
\* event leaves that outcome as it is.
C13_Race ==
  /\ gpc = "query" => raceLog = <<>>
  /\ Len(raceLog) <= 2
  /\ raceLog # <<>> =>
       /\ gpc \in {"done", "failed"}
       /\ raceLog[1].event = "response" =>
            /\ matches = raceLog[1].matches
            /\ gpc = "failed" => gerror = "type"
       /\ raceLog[1].event = "timer" =>
            /\ gpc = "failed"
            /\ gerror = "timeout"
            /\ gmessage = queryError(QUERY_TIMEOUT)
            /\ gmessage \notin { queryError(m) : m \in QueryErrors }
            /\ matches = <<>>
       /\ raceLog[1].event = "rejection" =>
            /\ gpc = "failed"
            /\ gerror = "query"
            /\ gmessage = queryError(raceLog[1].message)
            /\ matches = <<>>
       /\ Len(raceLog) = 2 => raceLog[2].event # raceLog[1].event

\* C13 witness: the timer fired first and the response of the query came
\* afterwards; the call has failed with the timeout
C13_Witness ==
  /\ Len(raceLog) = 2
  /\ raceLog[1].event = "timer"
  /\ raceLog[2].event = "response"
  /\ gpc = "failed"
  /\ gerror = "timeout"
  /\ queryPending = {}

\* the getContext call has ended
C18_Ended == gpc \in {"done", "failed"}

\* C18 as stated: each invocation of getContext issues exactly one request
\* to the embedding provider and, when the embedding is obtained, exactly one
\* top-K query with K = 8 to the index in the given namespace.  The calls
\* looked at are those with a message that is not blank and all settings
\* present.
C18_Original ==
  (C18_Ended /\ Trim(message) # <<>> /\ genv = AllSet) =>
     /\ Len(embedCalls) = 1
     /\ embedding # 0 =>
          /\ Len(queries) = 1
          /\ queries[1].topK = 8
          /\ queries[1].namespace = namespace

\* C18, amended: an invocation of getContext issues no request to the
\* embedding provider when the embedding key or the message is blank, and
\* otherwise one request, followed by a second one exactly when the first
\* failed with status 429 or 500 and above; every request carries the message
\* with newlines replaced by blanks, trimmed.  It issues at most one query:
\* none unless the embedding was obtained, and when it was obtained exactly
\* one if the index identifier and the index key are present, with K = 8, the
\* embedding as vector and the given namespace, and none if one of them is
\* absent.
C18_Requests ==
  /\ Len(embedCalls) <= 2
  /\ Len(queries) <= 1
  /\ \A k \in 1..Len(embedCalls) : embedCalls[k] = embeddingInput(message)
  /\ (gpc \notin {"off", "idle"}
        /\ (Trim(genv.OPENAI_API_KEY) = <<>> \/ Trim(message) = <<>>)) =>
        /\ embedCalls = <<>>
        /\ queries = <<>>
  /\ (gpc \notin {"off", "idle"} /\ Trim(genv.OPENAI_API_KEY) # <<>> /\ Trim(message) # <<>>) =>
        /\ Len(embedCalls) >= 1
        /\ (Len(embedCalls) = 2 \/ gpc = "wait") <=>
              (Len(embedOutcomes) >= 1 /\ C7_Transient(embedOutcomes[1]))
  /\ embedding = 0 => queries = <<>>
  /\ embedding # 0 =>
        /\ gpc \in {"query", "done", "failed"}
        /\ Len(queries) = 1 <=> (genv.PINECONE_INDEX # <<>> /\ genv.PINECONE_API_KEY # <<>>)
        /\ Len(queries) = 1 =>
              queries[1] = [vector |-> embedding, topK |-> 8, namespace |-> namespace]

\* C18 witness: the first embedding request failed and the second gave the
\* embedding; one query was made in the namespace "ns" and the call returned
C18_Witness ==
  /\ gpc = "done"
  /\ Len(embedCalls) = 2
  /\ embedding = 1536
  /\ Len(queries) = 1
  /\ namespace = << "n", "s" >>
  /\ queries[1].namespace = << "n", "s" >>
  /\ queries[1].topK = 8

\* C19 as stated: every vector that retrieval sends to the index as a query
\* vector has the configured dimension, 1536; an embedding of another length
\* is rejected and no query is made with it.
C19_Original ==
  /\ \A k \in 1..Len(queries) : queries[k].vector = INDEX_DIM
  /\ (embedding # 0 /\ embedding # INDEX_DIM) => (queries = <<>> /\ gpc = "failed")

\* the first index of a sequence at which a test holds, 0 if there is none
C20_First(tests) ==
  IF \E i \in 1..Len(tests) : tests[i]
  THEN CHOOSE i \in 1..Len(tests) : tests[i] /\ \A j \in 1..(i - 1) : ~tests[j]
  ELSE 0

\* the keys the claim names, and the text the claim gives a match: the first
\* non-empty string under one of these keys, else the first string-valued
\* field of at least 10 characters, else nothing
C20_ClaimKeys == << "chunk", "content", "text", "body", "message", "description" >>

C20_ClaimText(md) ==
  LET named == C20_First([i \in 1..Len(C20_ClaimKeys) |->
                            /\ Get(md, C20_ClaimKeys[i]).type = "string"
                            /\ Len(Get(md, C20_ClaimKeys[i]).str) > 0])
      other == C20_First([i \in 1..Len(md) |->
                            md[i].value.type = "string" /\ Len(md[i].value.str) >= 10])
  IN  IF named # 0 THEN Get(md, C20_ClaimKeys[named]).str
      ELSE IF other # 0 THEN md[other].value.str
      ELSE <<>>

\* C20 as stated: the text a match that passes the score filter contributes
\* is the first non-empty value among the keys chunk, content, text, body,
\* message, description; only when none of them yields text, another
\* string-valued field of at least 10 characters; a match with no such text
\* contributes nothing.
C20_Original ==
  (gpc = "done" /\ getOnlyText) =>
     LET texts == [k \in 1..Len(qualifyingDocs) |-> C20_ClaimText(qualifyingDocs[k].metadata)]
     IN  docs = SelectSeq(texts, LAMBDA t : Len(t) > 0)

\* the keys probed, and the value taken for a match: the first truthy value
\* under one of these keys, else the first string-valued field that is not
\* blank, else the first string-valued field of more than 10 characters, else
\* the empty string
C20_Keys ==
  << "chunk", "content", "text", "body", "message", "description", "pageContent", "value" >>

C20_Value(md) ==
  LET named == C20_First([i \in 1..Len(C20_Keys) |-> Truthy(Get(md, C20_Keys[i]))])
      other == C20_First([i \in 1..Len(md) |->
                            md[i].value.type = "string" /\ Trim(md[i].value.str) # <<>>])
      long  == C20_First([i \in 1..Len(md) |->
                            md[i].value.type = "string" /\ Len(md[i].value.str) > 10])
  IN  IF named # 0 THEN Get(md, C20_Keys[named])
      ELSE IF other # 0 THEN md[other].value
      ELSE IF long # 0 THEN md[long].value
      ELSE Str(<<>>)

\* C20, amended: for each match that passes the score filter the value taken
\* is the first truthy value among the keys chunk, content, text, body,
\* message, description, pageContent, value (in that order); only when none
\* of them is truthy, the first string-valued field that is not blank,
\* whatever its length, and failing that the first string-valued field of
\* more than 10 characters.  A match contributes the value taken when it is a
\* string that is not blank and nothing when it is a blank string (so a
\* field of more than 10 blanks contributes nothing); when the value taken
\* for some match is truthy and no string, getContext throws a TypeError.
C20_Extraction ==
  (Filtered /\ getOnlyText) =>
     LET values == [k \in 1..Len(qualifyingDocs) |-> C20_Value(qualifyingDocs[k].metadata)]
         kept == SelectSeq(values, LAMBDA v : v.type = "string" /\ Trim(v.str) # <<>>)
     IN  IF \E k \in 1..Len(values) : Truthy(values[k]) /\ values[k].type # "string"
         THEN gpc = "failed" /\ gerror = "type"
         ELSE /\ gpc = "done"
              /\ docs = [k \in 1..Len(kept) |-> kept[k].str]

\* C20 witness: the only match that passed the filter has no probed key and
\* contributes the two characters of its field source
C20_Witness ==
  /\ gpc = "done"
  /\ getOnlyText
  /\ Len(qualifyingDocs) = 1
  /\ qualifyingDocs[1].metadata = << Entry("source", Str(<< "g", "h" >>)) >>
  /\ docs = << << "g", "h" >> >>

(***************************************************************************)
(* Claims about the chat handler (under SpecChat).                          *)
(***************************************************************************)
\* the message of an error raised for a missing key or index identifier
C12_ConfigurationError(msg) ==
  msg \in { embeddingError(KEY_NOT_SET), INDEX_NOT_SET, CLIENT_KEY_NOT_SET }

\* C12 as stated: a failure caused by a missing API key or index identifier
\* is never retried: when a getContext call of the handler fails with such an
\* error, getContextWithRetry neither waits for a retry nor calls getContext
\* again.
C12_Original ==
  \A k \in 1..Len(hfailures) :
     C12_ConfigurationError(hfailures[k]) => (invocation = k /\ hpc # "backoff")

\* the failures of getContext that count as connection or timeout failures
C14_ConnectionFailures ==
  { embeddingError(MSG_NETWORK), queryError(QUERY_TIMEOUT), queryError(MSG_UNREACHABLE) }

\* the retries allowed after a failure
C14_Allowed(msg) == IF msg \in C14_ConnectionFailures THEN 3 ELSE 1

\* the wait before retry number n
C14_Delay(n) == IF 1000 * 2^n < 4000 THEN 1000 * 2^n ELSE 4000

\* C14: per chat request getContextWithRetry calls getContext at most 4
\* times; the failure of call k (made after k - 1 retries) is followed by a
\* retry exactly while k - 1 is less than 3 for a connection or timeout
\* failure and less than 1 for any other failure; the wait before retry
\* number n is min(1000 * 2^n, 4000) ms; and once the handler is past the
\* retrieval, the wrapper has ended with a context string or with the error
\* of the last call.
C14_Retries ==
  /\ invocation <= 4
  /\ Len(hfailures) <= invocation
  /\ hRetryCount = Len(hwaits)
  /\ hpc \in {"context", "backoff"} => invocation = hRetryCount + 1
  /\ \A k \in 1..Len(hfailures) :
        LET retried == invocation > k \/ (hpc = "backoff" /\ k = Len(hfailures))
        IN  /\ retried => k - 1 < C14_Allowed(hfailures[k])
            /\ (~retried /\ hpc # "context") => k - 1 >= C14_Allowed(hfailures[k])
  /\ \A n \in 0..(Len(hwaits) - 1) : hwaits[n + 1] = C14_Delay(n)
  /\ hpc = "backoff" => wrapperOutcome = "none"
  /\ (hpc \in {"responded", "completion"} /\ invocation > 0) =>
        /\ wrapperOutcome \in {"string", "error"}
        /\ wrapperOutcome = "string" =>
              /\ gpc = "done"
              /\ context = result
              /\ Len(hfailures) = invocation - 1
        /\ wrapperOutcome = "error" =>
              /\ gpc = "failed"
              /\ Len(hfailures) = invocation
              /\ wrapperError = hfailures[Len(hfailures)]
              /\ wrapperError = gmessage

\* C14 witness: a timeout, two more connection failures and a last one, with
\* the waits 1000, 2000 and 4000 ms between them; the wrapper threw the last
\* error
C14_Witness ==
  /\ invocation = 4
  /\ Len(hfailures) = 4
  /\ hfailures[1] = queryError(QUERY_TIMEOUT)
  /\ hfailures[3] = queryError(MSG_UNREACHABLE)
  /\ hfailures[4] = embeddingError(MSG_NETWORK)
  /\ hwaits = << 1000, 2000, 4000 >>
  /\ wrapperOutcome = "error"
  /\ wrapperError = embeddingError(MSG_NETWORK)

\* C15: when every getContext call of a chat request has failed, the handler
\* goes on with the empty string as context: the error the wrapper threw is
\* not thrown on, and the response is not the HTTP 500 of the outer handler;
\* a response with status 500 is given only before any getContext call.
C15_Degrades ==
  /\ wrapperOutcome = "error" =>
        /\ Len(hfailures) = invocation
        /\ context = <<>>
        /\ hpc = "responded"
        /\ response.status # 500
        /\ response = [status |-> 400, error |-> "no context"]
  /\ response.status = 500 => (invocation = 0 /\ response.error = "key")

\* C15 witness: two calls failed, on errors of the embedding provider, and
\* the handler has answered without context
C15_Witness ==
  /\ wrapperOutcome = "error"
  /\ invocation = 2
  /\ Len(hfailures) = 2
  /\ hfailures[1] = embeddingError(MSG_UNAUTHORIZED)
  /\ hfailures[2] = embeddingError(MSG_SERVER)
  /\ context = <<>>
  /\ response.status = 400

\* the network requests of the retrieval that have not settled: the
\* embedding request of the call now running and the index queries
C21_Outstanding == (IF gpc = "create" THEN 1 ELSE 0) + Cardinality(queryPending)

\* C21 as stated: at every moment at most one network request issued by the
\* system is outstanding; in retrieval a new attempt issues its requests only
\* when no query of an earlier attempt is still in flight.
C21_Original ==
  /\ C21_Outstanding <= 1
  /\ gpc = "create" => queryPending = {}
  /\ \A call \in queryPending : call = invocation

\* C26 as stated: with the namespace setting unset, the namespace of every
\* upsert request of an ingestion run is the namespace the chat handler passes
\* to getContext under the same setting.
C26_Original ==
  env.PINECONE_NAMESPACE = <<>> =>
     \A r \in 1..Len(requests) :
        requests[r].kind = "upsert" =>
           requests[r].namespace = handlerNamespace(env.PINECONE_NAMESPACE).str

\* an empty reply, a 429 failure or a failure with a status of 500 or more
C25_Repeatable(outcome) ==
  \/ outcome.kind = "reply" /\ Trim(outcome.content) = <<>>
  \/ outcome.kind = "error" /\ outcome.status = 429
  \/ outcome.kind = "error" /\ outcome.status >= 500

\* C25: per chat request the completion provider is called at most 3 times;
\* a call is followed by another one only when it gave an empty reply, a 429
\* or a status of 500 or more, and only when fewer than 2 retries had been
\* made before it, whatever their causes (the k-th call is made with a retry
\* counter of k - 1); a 401 is never followed by another call; and once a
\* completion call has been made the handler answers 200: with the reply when
\* the last call gave a non-empty one, with a fallback message otherwise.
C25_Completion ==
  /\ completionCalls <= 3
  /\ completionCalls = Len(completionLog) + (IF hpc = "completion" THEN 1 ELSE 0)
  /\ completionCalls > 0 => cRetryCount = completionCalls - 1
  /\ \A k \in 1..Len(completionLog) :
       /\ k < completionCalls => (C25_Repeatable(completionLog[k]) /\ k - 1 < 2)
       /\ completionLog[k].status = 401 => k = completionCalls
  /\ (completionCalls > 0 /\ hpc = "responded") =>
       LET last == completionLog[Len(completionLog)]
       IN  /\ response = [status |-> 200, error |-> "none"]
           /\ IF last.kind = "reply" /\ Trim(last.content) # <<>>
              THEN responseMessage = [kind |-> "reply", text |-> Trim(last.content)]
              ELSE responseMessage.kind \in {"rephrase", "difficulties"}

\* three calls repeated for three different causes, then the fallback answer
C25_Witness ==
  /\ hpc = "responded"
  /\ completionCalls = 3
  /\ completionLog[1].kind = "reply"
  /\ completionLog[2].status = 429
  /\ completionLog[3].status = 500
  /\ response.status = 200
  /\ responseMessage.kind = "difficulties"

====
